---- MODULE Spec2Model ----
(***************************************************************************)
(* Model of the analysis pipeline of procurement-analyzer:                 *)
(*   backend/app/services/pipeline.py      AnalysisPipeline                *)
(*   backend/app/routers/analyze.py        create_analysis._run_pipeline,  *)
(*                                         cancel_analysis                 *)
(*   backend/app/convex_client.py          ConvexDB (record, events)       *)
(*   backend/app/services/stream_store.py  the ephemeral lane registry     *)
(*   backend/app/services/extraction.py    extract_all                     *)
(*   backend/app/services/parser.py        parse_all                       *)
(*                                                                         *)
(* One analysis is modelled.  Every store call is one atomic step, and it  *)
(* may raise (ConvexDB re-raises every backend error).  The store is       *)
(* shared: a cancel request is served by its own handler, possibly in      *)
(* another server process, so its two store calls interleave freely with   *)
(* the store calls of the pipeline.  Inside the pipeline's process a store *)
(* call never suspends the caller (the lock of the in-memory store is      *)
(* never held across a suspension, the Convex client is synchronous), so a *)
(* task spawned by a callback runs _emit_event to its end, in spawn order, *)
(* before run() is resumed.                                                *)
(***************************************************************************)
EXTENDS Integers, Sequences, FiniteSets, TLC

\* ---------------------------------------------------------------- bounds
MaxFiles == 2
MaxStoreFailures == 1
\* number of store calls that raise while the store is down
MaxOutageFailures == 2
MaxCancels == 1
MaxPushes == 3
MaxDocs == 6
MaxChunks == 4
\* number of passes of the loop of chunk_text that are followed
MaxPasses == 8
MaxItems == 2

\* the deepest nesting of archives in an upload
MaxNesting == 11

\* the longest archive entry name, in characters
MaxNameLen == 4

\* the files of a create_analysis request that are told apart
MaxReqFiles == 2

\* create_stream calls for one analysis id
MaxCreates == 2

\* ------------------------------------------------------------- constants

\* extract_all(max_concurrent=5)
max_concurrent == 5

\* create_stream: asyncio.Queue(maxsize=500)
maxsize == 500

\* llm.py: MAX_RETRIES = 3
MAX_RETRIES == 3

\* analyze.py: MAX_FILE_SIZE = 50 * 1024 * 1024, MAX_FILES = 20
MAX_FILE_SIZE == 52428800
MAX_FILES == 20

Null == "null"

\* AnalysisStatus, in declaration order up to COMPLETED
StatusOrder ==
    <<"pending", "unpacking", "parsing", "extracting", "aggregating",
      "evaluating", "completed">>

\* the statuses cancel_analysis and the SSE stream treat as final
Terminal == {"completed", "failed", "canceled"}

\* the stages of AnalysisPipeline.run
ActiveStages ==
    {"unpacking", "parsing", "extracting", "aggregating", "evaluating"}

\* status written on entry of stage k (k = 0..4) by AnalysisPipeline.run
StageStatus_late(k) == StatusOrder[k + 1]
StageStatus(k) == StatusOrder[k + 2]

VARIABLES
    status,         \* analyses[aid]["status"]
    report,         \* analyses[aid]["report_json"]
    qa,             \* analyses[aid]["qa_json"]
    metrics,        \* analyses[aid]["metrics_json"]
    error,          \* analyses[aid]["error"]
    events,         \* analyses[aid]["events_json"]
    documents,      \* number of document records of the analysis
    lane,           \* aid \in _streams  (stream_store)
    pc,             \* position of the background task _run_pipeline
    stage,          \* index of the stage run() is in (0 = unpacking)
    event_index,    \* AnalysisPipeline._event_index
    cur,            \* type of the event run() emits next ("none": none)
    propagate,      \* an exception is propagating out of run()
    files,          \* per file of file_list: "todo", "ok", "err" ([ERROR])
    ex,             \* per document: state of its _extract_one worker
    cpc,            \* position of the cancel_analysis handler
    crec,           \* status in the record read by cancel_analysis
    cancels,        \* number of cancel requests made
    storeFails,     \* number of store calls that raised
    storeBudget,    \* number of store calls that may raise in this run
    terminalWrites, \* history: number of writes of a terminal status value
    removeCount,    \* history: number of remove_stream calls
    started,        \* history: an AnalysisPipeline was constructed
    raised,         \* history: "except Exception" of run() was entered
    canceledActive, \* history: cancel_analysis wrote canceled over the
                    \* status of an active stage
    canceledExtracting, \* history: ... over the status extracting
    spc,            \* position of event_generator ("off": no client)
    srec,           \* event_generator: status of the record read
    last_event_index,   \* event_generator.last_event_index
    last_status,    \* event_generator.last_status
    delivered,      \* SSE messages sent for durable events, in order
    sse_last,       \* last SSE message sent: "none", "message" (one of
                    \* progress, metrics, error_event, status), "complete",
                    \* "error"
    completes,      \* number of complete messages sent
    q,              \* chunks held by the asyncio.Queue of the lane
    tphase,         \* index in Phases of the LLM phase that is running
    tpushed,        \* number of _push_thinking calls so far (chunk text)
    tcount,         \* number of those made by PushThinking steps
    last_consumed,  \* the chunk event_generator yielded last
    llm,            \* the Gateway operation in progress (LLMClient)
    fan,            \* one parse_all call followed by one extract_all call
    ck,             \* one chunk_text call
    mg,             \* one merge_chunk_extractions call
    zp,             \* one extract_files call
    req,            \* one create_analysis request
    xd,             \* one extract_document call
    created         \* the last create_stream call (history)

storeVars == <<storeFails, storeBudget>>

vars == <<status, report, qa, metrics, error, events, documents, lane, pc,
          stage, event_index, cur, propagate, files, ex, cpc, crec, cancels,
          storeFails, storeBudget, terminalWrites, removeCount, started,
          raised,
          canceledActive, canceledExtracting, spc, srec, last_event_index,
          last_status, delivered, sse_last, completes, q, tphase, tpushed,
          tcount, last_consumed, llm, fan, ck, mg, zp, req, xd,
          created>>

recordVars == <<status, report, qa, metrics, error, terminalWrites>>
eventVars == <<events, event_index>>
runVars == <<pc, stage, cur, propagate>>
stageVars == <<files, ex>>
cancelVars == <<cpc, crec, cancels, canceledActive, canceledExtracting>>
histVars == <<removeCount, started, raised>>
streamVars == <<spc, srec, last_event_index, last_status, delivered,
                sse_last, completes>>
thinkVars == <<q, tphase, tpushed, tcount, last_consumed>>
\* what the pipeline and cancel_analysis never touch
llmVars == <<llm>>
fanVars == <<fan>>
pureVars == <<ck, mg, zp, req, xd, created>>
extVars == <<streamVars, thinkVars, llmVars, fanVars, pureVars>>

NoEvent == "none"

\* the phases whose calls stream thinking chunks, in the order of run()
Phases == <<"extraction", "aggregation", "evaluation">>

\* {"type": "thinking", "phase": phase, "text": text}
ThinkingChunk(phase, text) ==
    [type |-> "thinking", phase |-> phase, text |-> text]

\* {"type": "thinking_done"}
ThinkingDone == [type |-> "thinking_done", phase |-> "none", text |-> 0]

NoChunk == [type |-> "none", phase |-> "none", text |-> 0]

\* ------------------------------------------------------------ operators

\* stream_store.create_stream: _streams[analysis_id] = Queue(maxsize=500)
create_stream(registered) == TRUE

create_stream_existing(qq) == qq

\* stream_store.create_stream: the chunks of the queue it registers and
\* returns, qq being the chunks of the queue registered before the call
create_stream_queue(qq) == <<>>

\* stream_store.remove_stream: _streams.pop(analysis_id, None)
remove_stream_keep(registered) == registered
remove_stream(registered) == FALSE

\* _push_thinking: put_nowait; on QueueFull get_nowait (the oldest chunk)
\* and put_nowait again; on QueueEmpty give up
push_thinking_unbounded(qq, chunk) == Append(qq, chunk)
push_thinking(qq, chunk) ==
    IF Len(qq) < maxsize THEN Append(qq, chunk)
    ELSE IF qq = <<>> THEN qq
    ELSE Append(Tail(qq), chunk)

\* _push_thinking_done: put_nowait; QueueFull is ignored
push_thinking_done(qq) ==
    IF Len(qq) < maxsize THEN Append(qq, ThinkingDone) ELSE qq

\* parse_all(file_list): one ParsedDocument per file, [ERROR] documents
\* included, in the order of file_list
parsed_docs_ok(fs) == SelectSeq(fs, LAMBDA f : f # "err")
parsed_docs(fs) == fs

\* ConvexDB.get_events: list(events[since_index:])
get_events(evs, since_index) ==
    IF since_index >= Len(evs) THEN <<>>
    ELSE SubSeq(evs, since_index + 1, Len(evs))

\* _emit_event: the event is built with index = _event_index (and then
\* _event_index += 1); db.append_event appends it to events_json
emit_event_front(evs, idx, t) == <<[index |-> idx, event_type |-> t]>> \o evs
emit_event(evs, idx, t) == Append(evs, [index |-> idx, event_type |-> t])

\* AnalysisPipeline._check_cancellation: the test on the record read
IsCanceled(st) == st = "canceled"

\* cancel_analysis: the test on the record read ("nothing to do")
AlreadyTerminal(st) == st \in Terminal

\* where run() continues after its event of type t has been appended
AfterEmit(t) ==
    CASE t = "aggregation_started"   -> "agg"
      [] t = "aggregation_completed" -> "chk"
      [] t = "evaluation_started"    -> "eval"
      [] t = "evaluation_completed"  -> "save"
      [] t = "metrics_update"        -> "finally"
      [] t = "error"                 -> "finally"

\* where run() continues after status StageStatus(k) has been written
AfterUpdate(k) ==
    CASE k = 0 -> "unpack"
      [] k = 1 -> "parse"
      [] k = 2 -> "extract_begin"
      [] k = 3 -> "emit"
      [] k = 4 -> "emit"

\* the event run() emits right after status StageStatus(k) is written
FirstEvent(k) ==
    CASE k = 3 -> "aggregation_started"
      [] k = 4 -> "evaluation_started"
      [] OTHER -> NoEvent

\* --------------------------------------------------------- LLM Gateway

\* the public operations of LLMClient
Operations ==
    {"complete_text", "complete_structured", "complete_structured_streaming"}

\* what one HTTP request can come back with: a status code, or 0 for an
\* httpx.HTTPError raised by the transport
StatusCodes == {0, 200, 400, 429, 500}

\* data["choices"][0]["message"]["content"] of a 2xx response: missing,
\* empty or blank, JSON that validates, JSON or text that does not
ContentKinds == {"nocontent", "empty", "valid", "invalid"}

\* what a stream opened with 200 accumulates: as ContentKinds, or JSON cut
\* short, or an exception while the lines are read
StreamKinds == {"empty", "valid", "invalid", "truncated", "broken"}

\* _extract_usage: the token count reported with a response
Usages == {1, 2}

NoExc == [class |-> "none", status_code |-> 0]

\* LLMError and its subclasses; status_code 0 stands for None
Exc(class, status_code) == [class |-> class, status_code |-> status_code]

\* no operation has been called
LLMIdle ==
    [op |-> "none", pc |-> "idle", caller |-> "none", in_try |-> FALSE,
     attempt |-> 0, last_exc |-> NoExc, resps |-> <<>>, exc |-> NoExc,
     retry_count |-> 0, calls |-> 0, empties |-> 0, corrections |-> 0,
     correction_failed |-> FALSE, thinking |-> "none",
     temperature |-> "none", usage |-> 0, correction_usage |-> 0,
     result |-> "none", result_usage |-> 0, requests |-> 0,
     first_code |-> 0, all4xx |-> TRUE, fallback |-> "none",
     invocations |-> 0, sleeps |-> <<>>]

Is4xx(code) == code >= 400 /\ code < 500 /\ code # 429

\* _request_with_retry: the responses after which the loop goes on
Retryable_4xx(code) == code = 0 \/ code >= 400
Retryable(code) == code = 0 \/ code = 429 \/ code >= 500

\* _request_with_retry: last_exc after a response the loop goes on from
exc_of(code) ==
    IF code = 429 THEN Exc("LLMRateLimitError", 429)
    ELSE IF code >= 500 THEN Exc("LLMServerError", code)
    ELSE Exc("LLMError", 0)

\* llm.py: BACKOFF_SECONDS = [2, 4, 8]
BACKOFF_SECONDS == <<2, 4, 8>>

\* values of random.random(), in thousandths
Randoms == {0, 500, 999}

\* "if attempt < MAX_RETRIES - 1": a sleep follows the attempt; the sleeps
\* of a call are recorded by their base_sleep
backoff_due_always(attempt) == TRUE
backoff_due(attempt) == attempt < MAX_RETRIES - 1

\* "sleep_time = base_sleep * (1 + random.random() * 0.5)", in milliseconds
sleep_time(base_sleep, r) == base_sleep * 1000 + (base_sleep * r) \div 2

\* complete_structured: "if _retry_count < 2" on empty content
may_repeat_more(_retry_count) == _retry_count <= 2
may_repeat(_retry_count) == _retry_count < 2

\* one HTTP request was sent and answered with code
sent(s, code) ==
    [s EXCEPT !.requests = @ + 1,
              !.first_code = IF s.requests = 0 THEN code ELSE @,
              !.all4xx = @ /\ Is4xx(code)]

\* a call of _request_with_retry by the operation (caller "main") or by
\* _retry_with_correction (caller "correction": thinking off, temperature 0)
request_with_retry(s, caller) ==
    [s EXCEPT !.pc = "request", !.caller = caller, !.attempt = 0,
              !.last_exc = NoExc, !.resps = <<>>, !.exc = NoExc,
              !.sleeps = <<>>,
              !.thinking = IF caller = "correction" THEN "off" ELSE "caller",
              !.temperature = IF caller = "correction" THEN "0.0"
                              ELSE "caller"]

\* complete_structured(..., _retry_count = 0)
complete_structured(s) ==
    request_with_retry(
        [s EXCEPT !.retry_count = 0, !.calls = 1, !.empties = 0,
                  !.invocations = @ + 1], "main")

\* an exception leaves the code that raised it: inside the try block of
\* complete_structured_streaming "except Exception" calls
\* complete_structured, anywhere else the operation raises it
raise_uncaught(s, e) ==
    [s EXCEPT !.pc = "done", !.result = "raised", !.exc = e, !.sleeps = <<>>]
raise(s, e) ==
    IF s.in_try THEN complete_structured([s EXCEPT !.in_try = FALSE])
    ELSE [s EXCEPT !.pc = "done", !.result = "raised", !.exc = e,
                   !.sleeps = <<>>]

\* "return parsed, usage"
return(s, usage) ==
    [s EXCEPT !.pc = "done", !.result = "returned", !.result_usage = usage,
              !.sleeps = <<>>]

\* _retry_with_correction(...) is called for a response with usage u
retry_with_correction(s, u) ==
    request_with_retry(
        [s EXCEPT !.usage = u, !.corrections = @ + 1], "correction")

\* ------------------------------------------------------------ chunk_text

\* no call is in progress
Idle == [pc |-> "idle"]

\* the context lengths chunk_text is computed for: the smallest window
\* calculate_max_chars distinguishes, and extract_all's default
ContextLengths == {45000, 200000}

\* calculate_max_chars: reserved = 37_000, at least 8_000 tokens, 70% fill
\* (int(available * 0.70), exact for ContextLengths), 4 chars per token
calculate_max_chars(context_length) ==
    LET available_tokens ==
            IF context_length - 37000 > 8000 THEN context_length - 37000
            ELSE 8000
    IN ((available_tokens * 7) \div 10) * 4

\* chunk_text: overlap_chars = max(max_chars // 10, 2_000)
overlap_chars(max_chars) ==
    IF max_chars \div 10 > 2000 THEN max_chars \div 10 ELSE 2000

\* the lengths of the texts chunk_text is given, around the places where
\* the number of chunks changes
Lengths(C) ==
    {0, 1, C - 1, C, C + 1,
     2 * C - 2 * overlap_chars(C), 2 * C - 2 * overlap_chars(C) + 1,
     2 * C - overlap_chars(C), 2 * C - overlap_chars(C) + 1,
     2 * C, 3 * C}

\* a slice index i of a text of len characters: a negative index counts
\* from the end of the text, and the result is clipped to 0..len
SliceIndex(i, len) ==
    IF i < 0 THEN (IF len + i > 0 THEN len + i ELSE 0)
    ELSE IF i < len THEN i ELSE len

\* _find_structure_break(content, search_start, search_end): the position
\* of the last heading, blank line or newline of the window, which can be
\* any position from search_start to search_end - 1, or search_end when the
\* window has no newline
\* region = content[search_start:search_end] has n characters, rfind gives
\* a position pos of the region and the break is search_start + pos
StructureBreaks(search_start, search_end, len) ==
    LET a == SliceIndex(search_start, len)
        b == SliceIndex(search_end, len)
        n == IF b > a THEN b - a ELSE 0
    IN  {search_start + pos : pos \in {0, 1, n \div 2, n - 1} \cap 0..(n - 1)}
            \cup {search_end}

\* content[start:end] as the pair of its bounds
Slice(start, end, len) ==
    [start |-> SliceIndex(start, len), end |-> SliceIndex(end, len)]

\* ----------------------------------------------- merge_chunk_extractions

\* the sequences over S of length at most n
SeqsUpTo(S, n) == UNION {[1..k -> S] : k \in 0..n}

\* items of the list[str] fields, and of the list-of-object fields as
\* model_dump gives them (dicts)
Notes == {"a", "b"}
SourceReferences == {[field |-> "f", page |-> 1], [field |-> "f", page |-> 2]}
Lots == {"lot"}

\* an Optional[list] value: None, or a list
NoneList == [is_none |-> TRUE, items |-> <<>>]
SomeList(items) == [is_none |-> FALSE, items |-> items]

\* ExtractionResult, by one field of each kind: an Optional scalar, a
\* list[str], a list of objects, and the Optional list lot_structure
ExtractionResults ==
    [project_title : {Null, "t1", "t2"},
     confidence_notes : SeqsUpTo(Notes, MaxItems),
     source_references : SeqsUpTo(SourceReferences, 1),
     lot_structure :
         {NoneList} \cup {SomeList(l) : l \in SeqsUpTo(Lots, MaxItems)}]

\* ExtractionResult(): every Optional field None, every list field empty
EmptyResult ==
    [project_title |-> Null, confidence_notes |-> <<>>,
     source_references |-> <<>>, lot_structure |-> NoneList]

\* "item_key = str(item)" for an item that is no dict
item_key_same(item) == "k"
item_key_str(item) == item

\* "item_key = json.dumps(item, sort_keys=True, ...)" for a dict: its
\* key-value pairs in the order of the keys
item_key_dict(item) == <<<<"field", item.field>>, <<"page", item.page>>>>

\* "for item in existing + val": an item is appended to merged unless its
\* key is in seen
RECURSIVE merge_fold(_, _, _, _)
merge_fold(items, keys, seen, merged) ==
    IF items = <<>> THEN merged
    ELSE IF Head(keys) \in seen
         THEN merge_fold(Tail(items), Tail(keys), seen, merged)
         ELSE merge_fold(Tail(items), Tail(keys), seen \cup {Head(keys)},
                         Append(merged, Head(items)))

\* "if isinstance(item, dict): ... else: item_key = str(item)"
item_key(item, is_dict) ==
    IF is_dict THEN item_key_dict(item) ELSE item_key_str(item)

\* the list branch of the merge for one key
merge_list_concat(existing, val, is_dict) == existing \o val
merge_list(existing, val, is_dict) ==
    LET items == existing \o val IN
    merge_fold(items, [i \in 1..Len(items) |-> item_key(items[i], is_dict)],
               {}, <<>>)

\* the other branch: "elif existing is None and val is not None"
merge_scalar(existing, val) ==
    IF existing = Null /\ val # Null THEN val ELSE existing

\* the body of "for key, val in data.items()" for one result r
merge_into(base, r) ==
    [project_title |-> merge_scalar(base.project_title, r.project_title),
     confidence_notes |->
         merge_list(base.confidence_notes, r.confidence_notes, FALSE),
     source_references |->
         merge_list(base.source_references, r.source_references, TRUE),
     lot_structure |->
         IF ~base.lot_structure.is_none /\ ~r.lot_structure.is_none
         THEN SomeList(merge_list(base.lot_structure.items,
                                  r.lot_structure.items, FALSE))
         ELSE IF base.lot_structure.is_none THEN r.lot_structure
         ELSE base.lot_structure]

\* ExtractionResult.model_validate(base): _coerce_list_fields replaces a
\* list field that is None or a str; base holds a list in each of them
\* (model_dump of a valid result, or merged), and lot_structure is not
\* among the coerced fields
model_validate(base) == base

\* ------------------------------------------------ parse_all, extract_all

\* asyncio.Semaphore(value): "async with" enters while fewer than value
\* holders are inside
semaphore_open(held, value) == TRUE
semaphore_free(held, value) == held < value

\* extract_document: chunk_semaphore = asyncio.Semaphore(3)
chunk_concurrent == 3

\* the usage the LLM reports for document i
usage_of(i) == 10 * i

\* an entry (index, item) of the lists parse_all and extract_all sort
Indexed_usage(i, kind) == [index |-> i, kind |-> kind, usage |-> usage_of(i)]
Indexed(i, kind) ==
    [index |-> i, kind |-> kind,
     usage |-> IF kind = "ok" THEN usage_of(i) ELSE 0]

\* list.sort(key=lambda x: x[0]): stable, ascending by index
insert_by_index(x, seq) ==
    LET k == Cardinality({j \in 1..Len(seq) : seq[j].index <= x.index}) IN
    SubSeq(seq, 1, k) \o <<x>> \o SubSeq(seq, k + 1, Len(seq))

RECURSIVE sort_by_index_fold(_)
sort_by_index_fold(seq) ==
    IF seq = <<>> THEN <<>>
    ELSE insert_by_index(seq[Len(seq)],
                         sort_by_index_fold(SubSeq(seq, 1, Len(seq) - 1)))

sort_by_index_none(seq) == seq
sort_by_index(seq) == sort_by_index_fold(seq)

\* the elements of 1..n that satisfy Keep, ascending, as a sequence
RECURSIVE Ascending(_, _)
Ascending(n, keep) ==
    IF n = 0 THEN <<>>
    ELSE Ascending(n - 1, keep) \o (IF n \in keep THEN <<n>> ELSE <<>>)

\* no fan-out is running
FanIdle ==
    [pc |-> "idle", n |-> 0, on_error |-> FALSE,
     parse |-> <<>>, parsed_docs |-> <<>>, xw |-> <<>>, slot |-> <<>>,
     started |-> <<>>, completed |-> <<>>, errors |-> <<>>,
     llm_calls |-> <<>>, chunks |-> 0, chunks_todo |-> 0,
     chunks_running |-> 0, chunk_failed |-> FALSE, extractions |-> <<>>]

\* parse_all(file_paths) is called with n files; extract_all will be called
\* with its result, with or without an on_error callback; the first
\* document, when it parses, is split into chunks chunks by chunk_text
FanStart(n, oe, chunks) ==
    [FanIdle EXCEPT !.pc = "parse_all", !.n = n, !.on_error = oe,
                    !.parse = [i \in 1..n |-> "todo"],
                    !.xw = [i \in 1..n |-> "none"],
                    !.slot = [i \in 1..n |-> "none"],
                    !.started = [i \in 1..n |-> 0],
                    !.completed = [i \in 1..n |-> 0],
                    !.errors = [i \in 1..n |-> 0],
                    !.llm_calls = [i \in 1..n |-> 0],
                    !.chunks = chunks]

\* the workers inside "async with semaphore"
Parsing == {i \in 1..fan.n : fan.parse[i] = "parsing"}
Extracting == {i \in 1..fan.n : fan.xw[i] = "started"}

\* documents[i].content.startswith("[ERROR]")
IsErrorDoc(i) == fan.parsed_docs[i].kind = "err"

\* ----------------------------------------------------------------- Init
\* create_analysis: db.create_analysis has stored the record, the task
\* _run_pipeline has been created
InitAnalysisWith(budget) ==
    /\ status = "pending"
    /\ report = Null
    /\ qa = Null
    /\ metrics = Null
    /\ error = Null
    /\ events = <<>>
    /\ documents = 0
    /\ lane = FALSE
    /\ pc = "start"
    /\ stage = 0
    /\ event_index = 0
    /\ cur = NoEvent
    /\ propagate = FALSE
    /\ files = <<>>
    /\ ex = <<>>
    /\ cpc = "idle"
    /\ crec = Null
    /\ cancels = 0
    /\ storeFails = 0
    /\ storeBudget = budget
    /\ terminalWrites = 0
    /\ removeCount = 0
    /\ started = FALSE
    /\ raised = FALSE
    /\ canceledActive = FALSE
    /\ canceledExtracting = FALSE
    /\ srec = Null
    /\ last_event_index = 0
    /\ last_status = Null
    /\ delivered = <<>>
    /\ sse_last = "none"
    /\ completes = 0

\* at most MaxStoreFailures store calls raise
InitAnalysis == InitAnalysisWith(MaxStoreFailures)

\* the lane is empty, the extraction phase is about to produce chunks
ThinkingIdle ==
    /\ q = <<>>
    /\ tphase = 1
    /\ tpushed = 0
    /\ tcount = 0
    /\ last_consumed = NoChunk

\* no client is connected to the stream of the analysis
\* nothing but the analysis is running
Quiet ==
    /\ ThinkingIdle
    /\ llm = LLMIdle
    /\ fan = FanIdle
    /\ ck = Idle
    /\ mg = Idle
    /\ zp = Idle
    /\ req = Idle
    /\ xd = Idle
    /\ created = Idle

Init == InitAnalysis /\ spc = "off" /\ Quiet

\* a client has opened /analyze/{id}/stream before the task starts
InitStream == InitAnalysis /\ spc = "poll" /\ Quiet

\* ------------------------------------------------------- store helpers

\* the store call returns normally
StoreOk == UNCHANGED storeVars

\* the store call raises
StoreFail ==
    /\ storeFails < storeBudget
    /\ storeFails' = storeFails + 1
    /\ UNCHANGED storeBudget

\* update_analysis(status=v): record.update(kwargs)
WriteStatus(v) ==
    /\ status' = v
    /\ terminalWrites' = terminalWrites + (IF v \in Terminal THEN 1 ELSE 0)

NoWrite == UNCHANGED <<status, terminalWrites>>

\* an exception reaches "except Exception" of run()
Raise ==
    /\ pc' = "h_upd"
    /\ raised' = TRUE

\* ------------------------------------------ create_analysis._run_pipeline

\* the API key lookup: settings.openrouter_api_key ("env"), else
\* db.get_setting ("db": a key is stored, "none": no key anywhere)
WStart ==
    /\ pc = "start"
    /\ \E keySource \in {"env", "db", "none"} :
          \/ /\ keySource = "env"
             /\ StoreOk
             /\ pc' = "init"
          \/ /\ keySource # "env"
             /\ StoreOk
             /\ pc' = IF keySource = "db" THEN "init" ELSE "nokey"
          \/ /\ keySource # "env"
             /\ StoreFail
             /\ pc' = "w_fail"
    /\ UNCHANGED <<recordVars, eventVars, documents, lane, stage, cur,
                   propagate, stageVars, cancelVars, histVars>>
    /\ UNCHANGED extVars

\* "OpenRouter API key not configured": update_analysis(status="failed")
NoKey ==
    /\ pc = "nokey"
    /\ \/ /\ StoreOk
          /\ WriteStatus("failed")
          /\ error' = "message"
          /\ pc' = "done"
       \/ /\ StoreFail
          /\ NoWrite
          /\ UNCHANGED error
          /\ pc' = "w_fail"
    /\ UNCHANGED <<report, qa, metrics, eventVars, documents, lane, stage,
                   cur, propagate, stageVars, cancelVars, histVars>>
    /\ UNCHANGED extVars

\* "except Exception" of _run_pipeline: update_analysis(status="failed"),
\* whose own failure is only logged
WFail ==
    /\ pc = "w_fail"
    /\ \/ /\ StoreOk
          /\ WriteStatus("failed")
          /\ error' = "message"
       \/ /\ StoreFail
          /\ NoWrite
          /\ UNCHANGED error
    /\ pc' = "done"
    /\ propagate' = FALSE
    /\ UNCHANGED <<report, qa, metrics, eventVars, documents, lane, stage,
                   cur, stageVars, cancelVars, histVars>>
    /\ UNCHANGED extVars

\* AnalysisPipeline.__init__
PipelineInit ==
    /\ pc = "init"
    /\ event_index' = 0
    /\ lane' = create_stream(lane)
    /\ started' = TRUE
    /\ stage' = 0
    /\ pc' = "chk"
    /\ UNCHANGED <<recordVars, events, documents, cur, propagate, stageVars,
                   cancelVars, storeVars, removeCount, raised>>
    /\ UNCHANGED extVars

\* ------------------------------------------------- AnalysisPipeline.run

\* _check_cancellation: db.get_analysis, raise CancelledError if canceled;
\* "except asyncio.CancelledError: return"
CheckCancellation ==
    /\ pc = "chk"
    /\ \/ /\ StoreOk
          /\ pc' = IF IsCanceled(status) THEN "finally" ELSE "upd"
          /\ UNCHANGED raised
       \/ /\ StoreFail
          /\ Raise
    /\ UNCHANGED <<recordVars, eventVars, documents, lane, stage, cur,
                   propagate, stageVars, cancelVars, removeCount, started>>
    /\ UNCHANGED extVars

\* _update_status(status of the stage)
UpdateStatus ==
    /\ pc = "upd"
    /\ \/ /\ StoreOk
          /\ WriteStatus(StageStatus(stage))
          /\ pc' = AfterUpdate(stage)
          /\ cur' = FirstEvent(stage)
          /\ UNCHANGED raised
       \/ /\ StoreFail
          /\ Raise
          /\ NoWrite
          /\ UNCHANGED cur
    /\ UNCHANGED <<report, qa, metrics, error, eventVars, documents, lane,
                   stage, propagate, stageVars, cancelVars, removeCount,
                   started>>
    /\ UNCHANGED extVars

\* "await self._emit_event(cur, ...)" in run()
Emit ==
    /\ pc = "emit"
    /\ event_index' = event_index + 1
    /\ \/ /\ StoreOk
          /\ events' = emit_event(events, event_index, cur)
          /\ pc' = AfterEmit(cur)
          /\ stage' = IF cur = "aggregation_completed" THEN 4 ELSE stage
          /\ UNCHANGED <<raised, propagate>>
       \/ /\ StoreFail
          /\ cur # "error"
          /\ Raise
          /\ UNCHANGED <<events, stage, propagate>>
       \/ /\ StoreFail
          /\ cur = "error"
          /\ propagate' = TRUE
          /\ pc' = "finally"
          /\ UNCHANGED <<events, stage, raised>>
    /\ cur' = NoEvent
    /\ UNCHANGED <<recordVars, documents, lane, stageVars, cancelVars,
                   removeCount, started>>
    /\ UNCHANGED extVars

\* asyncio.create_task(self._emit_event(t, ...)) from a sync callback: the
\* task runs _emit_event when its creator suspends; if append_event raises
\* the task dies with its event ("exception was never retrieved")
Spawn(t) ==
    /\ event_index' = event_index + 1
    /\ \/ /\ StoreOk
          /\ events' = emit_event(events, event_index, t)
       \/ /\ StoreFail
          /\ UNCHANGED events

\* Step 0: extract_files; an empty file list raises ValueError
Unpack ==
    /\ pc = "unpack"
    /\ \E n \in 0..MaxFiles :
          IF n = 0
          THEN /\ Raise
               /\ UNCHANGED <<files, stage>>
          ELSE /\ files' = [i \in 1..n |-> "todo"]
               /\ stage' = 1
               /\ pc' = "chk"
               /\ UNCHANGED raised
    /\ UNCHANGED <<recordVars, eventVars, documents, lane, cur, propagate,
                   ex, cancelVars, storeVars, removeCount, started>>
    /\ UNCHANGED extVars

\* parse_all._parse_one: parse_document never raises (a failure is a
\* document whose content starts with [ERROR]); then on_parsed(parsed)
ParseOne(i) ==
    /\ pc = "parse"
    /\ i \in DOMAIN files
    /\ files[i] = "todo"
    /\ \E kind \in {"ok", "err"} : files' = [files EXCEPT ![i] = kind]
    /\ Spawn("file_parsed")
    /\ UNCHANGED <<recordVars, documents, lane, runVars, ex, cancelVars,
                   histVars>>
    /\ UNCHANGED extVars

\* parse_all returns once asyncio.gather has all results
ParseEnd ==
    /\ pc = "parse"
    /\ \A i \in DOMAIN files : files[i] # "todo"
    /\ pc' = "adddoc"
    /\ UNCHANGED <<recordVars, eventVars, documents, lane, stage, cur,
                   propagate, stageVars, cancelVars, storeVars, histVars>>
    /\ UNCHANGED extVars

\* "for doc in parsed_docs: await self.db.add_document(...)"
AddDocument ==
    /\ pc = "adddoc"
    /\ documents < Len(parsed_docs(files))
    /\ \/ /\ StoreOk
          /\ documents' = documents + 1
          /\ IF documents + 1 = Len(parsed_docs(files))
             THEN pc' = "chk" /\ stage' = 2
             ELSE UNCHANGED <<pc, stage>>
          /\ UNCHANGED raised
       \/ /\ StoreFail
          /\ Raise
          /\ UNCHANGED <<documents, stage>>
    /\ UNCHANGED <<recordVars, eventVars, lane, cur, propagate, stageVars,
                   cancelVars, removeCount, started>>
    /\ UNCHANGED extVars

\* extract_all up to asyncio.gather: [ERROR] documents are skipped
\* (run() passes no on_error callback, so nothing is emitted for them)
ExtractBegin ==
    /\ pc = "extract_begin"
    /\ ex' = [i \in DOMAIN parsed_docs(files) |->
                 IF parsed_docs(files)[i] = "err" THEN "skipped" ELSE "todo"]
    /\ pc' = "extract"
    /\ UNCHANGED <<recordVars, eventVars, documents, lane, stage, cur,
                   propagate, files, cancelVars, storeVars, histVars>>
    /\ UNCHANGED extVars

\* extract_all._extract_one: semaphore acquired, on_started(index, name)
ExtractStart(i) ==
    /\ pc = "extract"
    /\ i \in DOMAIN ex
    /\ ex[i] = "todo"
    /\ Cardinality({j \in DOMAIN ex : ex[j] = "started"}) < max_concurrent
    /\ ex' = [ex EXCEPT ![i] = "started"]
    /\ Spawn("extraction_started")
    /\ UNCHANGED <<recordVars, documents, lane, runVars, files, cancelVars,
                   histVars>>
    /\ UNCHANGED extVars

\* extract_all._extract_one: extract_document returned; a good result fires
\* on_completed, a result with a failure note fires no callback
ExtractFinish(i) ==
    /\ pc = "extract"
    /\ i \in DOMAIN ex
    /\ ex[i] = "started"
    /\ \/ /\ ex' = [ex EXCEPT ![i] = "done"]
          /\ Spawn("extraction_completed")
       \/ /\ ex' = [ex EXCEPT ![i] = "failed"]
          /\ UNCHANGED <<eventVars, storeVars>>
    /\ UNCHANGED <<recordVars, documents, lane, runVars, files, cancelVars,
                   histVars>>
    /\ UNCHANGED extVars

\* extract_all returns; _push_thinking_done; usage accumulated
ExtractEnd ==
    /\ pc = "extract"
    /\ \A i \in DOMAIN ex : ex[i] \in {"done", "failed", "skipped"}
    /\ pc' = "chk"
    /\ stage' = 3
    /\ UNCHANGED <<recordVars, eventVars, documents, lane, cur, propagate,
                   stageVars, cancelVars, storeVars, histVars>>
    /\ UNCHANGED extVars

\* Step 3: aggregate_results (one LLM call, may raise)
Aggregate ==
    /\ pc = "agg"
    /\ \/ /\ cur' = "aggregation_completed"
          /\ pc' = "emit"
          /\ UNCHANGED raised
       \/ /\ Raise
          /\ UNCHANGED cur
    /\ UNCHANGED <<recordVars, eventVars, documents, lane, stage, propagate,
                   stageVars, cancelVars, storeVars, removeCount, started>>
    /\ UNCHANGED extVars

\* Step 4: evaluate_report (one LLM call, may raise)
Evaluate ==
    /\ pc = "eval"
    /\ \/ /\ cur' = "evaluation_completed"
          /\ pc' = "emit"
          /\ UNCHANGED raised
       \/ /\ Raise
          /\ UNCHANGED cur
    /\ UNCHANGED <<recordVars, eventVars, documents, lane, stage, propagate,
                   stageVars, cancelVars, storeVars, removeCount, started>>
    /\ UNCHANGED extVars

\* Step 5: update_analysis(status=completed, report_json, qa_json,
\* metrics_json)
Save ==
    /\ pc = "save"
    /\ \/ /\ StoreOk
          /\ WriteStatus("completed")
          /\ report' = "report"
          /\ qa' = "qa"
          /\ metrics' = "metrics"
          /\ cur' = "metrics_update"
          /\ pc' = "emit"
          /\ UNCHANGED raised
       \/ /\ StoreFail
          /\ Raise
          /\ NoWrite
          /\ UNCHANGED <<report, qa, metrics, cur>>
    /\ UNCHANGED <<error, eventVars, documents, lane, stage, propagate,
                   stageVars, cancelVars, removeCount, started>>
    /\ UNCHANGED extVars

\* "except Exception": update_analysis(status=failed, error, metrics_json)
HandlerUpdate ==
    /\ pc = "h_upd"
    /\ \/ /\ StoreOk
          /\ WriteStatus("failed")
          /\ error' = "message"
          /\ metrics' = "metrics"
          /\ cur' = "error"
          /\ pc' = "emit"
          /\ UNCHANGED propagate
       \/ /\ StoreFail
          /\ NoWrite
          /\ propagate' = TRUE
          /\ pc' = "finally"
          /\ UNCHANGED <<error, metrics, cur>>
    /\ UNCHANGED <<report, qa, eventVars, documents, lane, stage, stageVars,
                   cancelVars, histVars>>
    /\ UNCHANGED extVars

\* "finally: remove_stream(self.analysis_id)", then back in _run_pipeline
Finally ==
    /\ pc = "finally"
    /\ lane' = remove_stream(lane)
    /\ removeCount' = removeCount + 1
    /\ pc' = IF propagate THEN "w_fail" ELSE "done"
    /\ UNCHANGED <<recordVars, eventVars, documents, stage, cur, propagate,
                   stageVars, cancelVars, storeVars, started, raised>>
    /\ UNCHANGED extVars

\* ------------------------------------------------------ cancel_analysis

\* record = await db.get_analysis(analysis_id)
CancelRead ==
    /\ cpc = "idle"
    /\ cancels < MaxCancels
    /\ cancels' = cancels + 1
    /\ \/ /\ StoreOk
          /\ crec' = status
          /\ cpc' = "read"
       \/ /\ StoreFail
          /\ UNCHANGED <<crec, cpc>>
    /\ UNCHANGED <<recordVars, eventVars, documents, lane, runVars,
                   stageVars, histVars, canceledActive, canceledExtracting>>
    /\ UNCHANGED extVars

\* return if the record read is terminal, else
\* await db.update_analysis(analysis_id, status="canceled")
CancelWrite ==
    /\ cpc = "read"
    /\ cpc' = "idle"
    /\ crec' = Null
    /\ IF AlreadyTerminal(crec)
       THEN /\ StoreOk
            /\ NoWrite
            /\ UNCHANGED <<canceledActive, canceledExtracting>>
       ELSE \/ /\ StoreOk
               /\ WriteStatus("canceled")
               /\ canceledActive' =
                      (canceledActive \/ status \in ActiveStages)
               /\ canceledExtracting' =
                      (canceledExtracting \/ status = "extracting")
            \/ /\ StoreFail
               /\ NoWrite
               /\ UNCHANGED <<canceledActive, canceledExtracting>>
    /\ UNCHANGED <<report, qa, metrics, error, eventVars, documents, lane,
                   runVars, stageVars, cancels, histVars>>
    /\ UNCHANGED extVars

\* ------------------------------ stream_analysis_progress.event_generator
\* (step 1 of its loop, the drain of the ephemeral lane, is DrainOne)

\* what the pipeline and cancel_analysis own, but for the failure budget
analysisVars == <<recordVars, eventVars, documents, lane, runVars,
                  stageVars, cancelVars, histVars>>

\* the SSE event name a durable event is routed to
sse_name(event_type) ==
    CASE event_type = "metrics_update" -> "metrics"
      [] event_type = "error" -> "error_event"
      [] OTHER -> "progress"

\* "if current_status in (completed, failed, canceled)": close
StreamTerminal_any(st) == TRUE
StreamTerminal(st) == st \in {"completed", "failed", "canceled"}

\* "except Exception": yield the error message, break
StreamError ==
    /\ sse_last' = "error"
    /\ spc' = "done"
    /\ UNCHANGED <<srec, last_event_index, last_status, delivered,
                   completes>>

\* record = await db.get_analysis(analysis_id)
StreamPoll ==
    /\ spc = "poll"
    /\ \/ /\ StoreOk
          /\ srec' = status
          /\ spc' = "events"
          /\ UNCHANGED <<last_event_index, last_status, delivered,
                         sse_last, completes>>
       \/ /\ StoreFail
          /\ StreamError
    /\ UNCHANGED <<analysisVars, thinkVars, llmVars, fanVars, pureVars>>

\* new_events = await db.get_events(since_index=last_event_index); one
\* message per event; a status message if the status changed; complete
\* and break on a terminal status, else sleep
StreamEvents ==
    /\ spc = "events"
    /\ \/ /\ StoreOk
          /\ LET new_events == get_events(events, last_event_index)
                 msgs == [i \in 1..Len(new_events) |->
                             [event |-> sse_name(new_events[i].event_type),
                              index |-> new_events[i].index]]
             IN /\ delivered' = delivered \o msgs
                /\ last_event_index' = last_event_index + Len(new_events)
                /\ last_status' = srec
                /\ IF StreamTerminal(srec)
                   THEN /\ sse_last' = "complete"
                        /\ completes' = completes + 1
                        /\ spc' = "done"
                   ELSE /\ sse_last' =
                              IF srec # last_status \/ Len(new_events) > 0
                              THEN "message"
                              ELSE sse_last
                        /\ completes' = completes
                        /\ spc' = "poll"
          /\ UNCHANGED srec
       \/ /\ StoreFail
          /\ StreamError
    /\ UNCHANGED <<analysisVars, thinkVars, llmVars, fanVars, pureVars>>

\* the client goes away: "except asyncio.CancelledError: break"; the
\* generator and its locals are discarded
StreamDisconnect ==
    /\ spc \in {"poll", "events"}
    /\ spc' = "gone"
    /\ srec' = Null
    /\ last_event_index' = 0
    /\ last_status' = Null
    /\ delivered' = <<>>
    /\ sse_last' = "none"
    /\ completes' = 0
    /\ UNCHANGED <<analysisVars, storeVars, thinkVars, llmVars, fanVars,
                   pureVars>>

\* ------------------------------------------------- the ephemeral lane

\* the lane after k chunks of the extraction phase were pushed and none was
\* consumed (k = 0: the lane as create_stream made it)
InitThinking ==
    /\ InitAnalysis
    /\ spc = "off"
    /\ \E k \in {0, maxsize - 1, maxsize} :
          /\ q = [i \in 1..k |-> ThinkingChunk(Phases[1], i)]
          /\ tpushed = k
    /\ tphase = 1
    /\ tcount = 0
    /\ last_consumed = NoChunk
    /\ llm = LLMIdle
    /\ fan = FanIdle
    /\ ck = Idle
    /\ mg = Idle
    /\ zp = Idle
    /\ req = Idle
    /\ xd = Idle
    /\ created = Idle

\* on_thinking(text) of the running phase: _push_thinking(phase, text)
PushThinking ==
    /\ tphase <= Len(Phases)
    /\ tcount < MaxPushes
    /\ q' = push_thinking(q, ThinkingChunk(Phases[tphase], tpushed + 1))
    /\ tpushed' = tpushed + 1
    /\ tcount' = tcount + 1
    /\ UNCHANGED <<tphase, last_consumed>>
    /\ UNCHANGED <<analysisVars, storeVars, streamVars, llmVars,
                   fanVars, pureVars>>

\* the phase's call has returned: "await self._push_thinking_done()"
PushThinkingDone ==
    /\ tphase <= Len(Phases)
    /\ q' = push_thinking_done(q)
    /\ tphase' = tphase + 1
    /\ UNCHANGED <<tpushed, tcount, last_consumed>>
    /\ UNCHANGED <<analysisVars, storeVars, streamVars, llmVars,
                   fanVars, pureVars>>

\* event_generator, step 1: "chunk = stream_q.get_nowait()", yield it
DrainOne ==
    /\ q # <<>>
    /\ last_consumed' = Head(q)
    /\ q' = Tail(q)
    /\ UNCHANGED <<tphase, tpushed, tcount>>
    /\ UNCHANGED <<analysisVars, storeVars, streamVars, llmVars,
                   fanVars, pureVars>>

NextThinking ==
    \/ PushThinking
    \/ PushThinkingDone
    \/ DrainOne

SpecThinking == InitThinking /\ [][NextThinking]_vars

\* --------------------------------------------- stream_store, any caller
\* create_stream(aid), for an aid with or without a lane
CreateStream ==
    /\ (IF created.pc = "idle" THEN 0 ELSE created.calls) < MaxCreates
    /\ lane' = create_stream(lane)
    /\ q' = create_stream_queue(q)
    /\ created' = [pc |-> "called",
                   calls |-> IF created.pc = "idle" THEN 1
                             ELSE created.calls + 1,
                   had_lane |-> lane, before |-> q,
                   returned |-> create_stream_queue(q)]
    /\ UNCHANGED <<tphase, tpushed, tcount, last_consumed>>
    /\ UNCHANGED <<recordVars, eventVars, documents, runVars, stageVars,
                   cancelVars, histVars, storeVars, streamVars, llmVars,
                   fanVars, ck, mg, zp, req, xd>>

\* remove_stream(aid): the queue leaves the registry
RemoveStream ==
    /\ lane
    /\ lane' = remove_stream(lane)
    /\ q' = <<>>
    /\ UNCHANGED <<tphase, tpushed, tcount, last_consumed>>
    /\ UNCHANGED <<recordVars, eventVars, documents, runVars, stageVars,
                   cancelVars, histVars, storeVars, streamVars, llmVars,
                   fanVars, pureVars>>

\* the registry under its operations in any order; q is the queue that
\* get_stream returns, fed by the caller create_stream returned it to
NextLane ==
    \/ CreateStream
    \/ RemoveStream
    \/ lane /\ PushThinking
    \/ lane /\ PushThinkingDone
    \/ lane /\ DrainOne

SpecLane == Init /\ [][NextLane]_vars

\* ------------------------------------------------ LLMClient operations

\* a caller invokes an operation of the client
Call(op) ==
    /\ llm.pc = "idle"
    /\ llm' = IF op = "complete_structured_streaming"
              THEN [llm EXCEPT !.op = op, !.pc = "stream", !.in_try = TRUE,
                               !.thinking = "caller",
                               !.temperature = "caller"]
              ELSE IF op = "complete_structured"
              THEN complete_structured([llm EXCEPT !.op = op])
              ELSE request_with_retry([llm EXCEPT !.op = op], "main")
    /\ UNCHANGED <<analysisVars, storeVars, streamVars, thinkVars,
                   fanVars, pureVars>>

\* _request_with_retry: one pass of "for attempt in range(MAX_RETRIES)"
Request ==
    /\ llm.pc = "request"
    /\ \E code \in StatusCodes :
          LET s0 == [sent(llm, code) EXCEPT !.resps = Append(@, code)]
              s == IF Retryable(code) /\ backoff_due(s0.attempt)
                   THEN [s0 EXCEPT !.sleeps =
                            Append(@, BACKOFF_SECONDS[s0.attempt + 1])]
                   ELSE s0
          IN
          llm' = IF Retryable(code)
                 THEN IF s.attempt < MAX_RETRIES - 1
                      THEN [s EXCEPT !.last_exc = exc_of(code),
                                     !.attempt = @ + 1]
                      ELSE [s EXCEPT !.last_exc = exc_of(code),
                                     !.exc = exc_of(code), !.pc = "raised"]
                 ELSE IF code >= 400
                 THEN [s EXCEPT !.exc = Exc("LLMError", code),
                                !.pc = "raised"]
                 ELSE [s EXCEPT !.pc = "response"]
    /\ UNCHANGED <<analysisVars, storeVars, streamVars, thinkVars,
                   fanVars, pureVars>>

\* the exception of _request_with_retry reaches the operation
Raised ==
    /\ llm.pc = "raised"
    /\ llm' = raise(llm, llm.exc)
    /\ UNCHANGED <<analysisVars, storeVars, streamVars, thinkVars,
                   fanVars, pureVars>>

\* complete_text, complete_structured: the response of the main call
Response ==
    /\ llm.pc = "response"
    /\ llm.caller = "main"
    /\ \E kind \in ContentKinds, u \in Usages :
          llm' = IF kind = "nocontent"
                 THEN raise(llm, Exc("LLMParseError", 0))
                 ELSE IF llm.op = "complete_text" \/ kind = "valid"
                 THEN return(llm, u)
                 ELSE IF kind = "empty"
                 THEN IF may_repeat(llm.retry_count)
                      THEN request_with_retry(
                               [llm EXCEPT !.retry_count = @ + 1,
                                           !.calls = @ + 1,
                                           !.empties = @ + 1], "main")
                      ELSE raise([llm EXCEPT !.empties = @ + 1],
                                 Exc("LLMParseError", 0))
                 ELSE retry_with_correction(llm, u)
    /\ UNCHANGED <<analysisVars, storeVars, streamVars, thinkVars,
                   fanVars, pureVars>>

\* _retry_with_correction: the response of the correction call
CorrectionResponse ==
    /\ llm.pc = "response"
    /\ llm.caller = "correction"
    /\ \E kind \in ContentKinds, u \in Usages :
          llm' = IF kind = "valid"
                 THEN return([llm EXCEPT !.correction_usage = u],
                             llm.usage + u)
                 ELSE raise([llm EXCEPT !.correction_failed = TRUE],
                            Exc("LLMParseError", 0))
    /\ UNCHANGED <<analysisVars, storeVars, streamVars, thinkVars,
                   fanVars, pureVars>>

\* complete_structured_streaming: self._client.stream(...) and the parse of
\* what it accumulated
StreamRequest ==
    /\ llm.pc = "stream"
    /\ \E code \in StatusCodes, kind \in StreamKinds, u \in Usages :
          LET s == sent(llm, code) IN
          llm' = IF code = 0 \/ (code = 200 /\ kind = "broken")
                 THEN raise(s, Exc("HTTPError", 0))
                 ELSE IF code # 200 \/ kind \in {"empty", "truncated"}
                 THEN complete_structured(
                          [s EXCEPT !.fallback = IF code # 200 THEN "status"
                                                 ELSE kind])
                 ELSE IF kind = "invalid"
                 THEN retry_with_correction(s, u)
                 ELSE return(s, u)
    /\ UNCHANGED <<analysisVars, storeVars, streamVars, thinkVars,
                   fanVars, pureVars>>

NextLLM ==
    \/ \E op \in Operations : Call(op)
    \/ Request
    \/ Raised
    \/ Response
    \/ CorrectionResponse
    \/ StreamRequest

SpecLLM == Init /\ [][NextLLM]_vars

\* every request is answered or fails (the httpx client has a timeout) and
\* every backoff sleep ends
SpecLLMFair == SpecLLM /\ WF_vars(NextLLM)

\* --------------------------------------------- parse_all and extract_all

InitFan ==
    /\ InitAnalysis
    /\ spc = "off"
    /\ ThinkingIdle
    /\ llm = LLMIdle
    /\ ck = Idle
    /\ mg = Idle
    /\ zp = Idle
    /\ req = Idle
    /\ xd = Idle
    /\ created = Idle
    /\ \E n \in 0..MaxDocs, oe \in BOOLEAN, chunks \in {1, MaxChunks} :
          fan = FanStart(n, oe, chunks)

FanFrame ==
    UNCHANGED <<analysisVars, storeVars, streamVars, thinkVars, llmVars,
                pureVars>>

\* parse_all._parse_one: "async with semaphore" is entered
ParseStart(i) ==
    /\ fan.pc = "parse_all"
    /\ i \in 1..fan.n
    /\ fan.parse[i] = "todo"
    /\ semaphore_free(Cardinality(Parsing), max_concurrent)
    /\ fan' = [fan EXCEPT !.parse[i] = "parsing"]
    /\ FanFrame

\* parse_all._parse_one: parse_document returned a document, or an [ERROR]
\* document; on_parsed; the semaphore is released
ParseFinish(i) ==
    /\ fan.pc = "parse_all"
    /\ i \in 1..fan.n
    /\ fan.parse[i] = "parsing"
    /\ \E kind \in {"ok", "err"} : fan' = [fan EXCEPT !.parse[i] = kind]
    /\ FanFrame

\* parse_all: gather has every result, in task order; sorted by index;
\* extract_all(docs = parsed_docs, ...) is called
ParseAllReturn ==
    /\ fan.pc = "parse_all"
    /\ \A i \in 1..fan.n : fan.parse[i] \in {"ok", "err"}
    /\ fan' = [fan EXCEPT
                 !.parsed_docs =
                     sort_by_index([i \in 1..fan.n |->
                                       Indexed(i, fan.parse[i])]),
                 !.pc = "extract_all"]
    /\ FanFrame

\* extract_all up to gather: "if not docs: return []"; [ERROR] documents
\* get their result and on_error at once, the others a task
ExtractAllBegin ==
    /\ fan.pc = "extract_all"
    /\ fan' = IF fan.n = 0
              THEN [fan EXCEPT !.pc = "returned"]
              ELSE [fan EXCEPT
                      !.pc = "gather",
                      !.slot = [i \in 1..fan.n |->
                                   IF IsErrorDoc(i) THEN "skipped"
                                   ELSE "none"],
                      !.errors = [i \in 1..fan.n |->
                                   IF IsErrorDoc(i) /\ fan.on_error
                                   THEN 1 ELSE 0],
                      !.xw = [i \in 1..fan.n |->
                                   IF IsErrorDoc(i) THEN "none"
                                   ELSE "waiting"]]
    /\ FanFrame

\* extract_all._extract_one: "async with semaphore" is entered,
\* on_started; extract_document makes its first LLM call, or, for a
\* document of several chunks, creates the chunk tasks
ExtractOneStart(i) ==
    /\ fan.pc = "gather"
    /\ i \in 1..fan.n
    /\ fan.xw[i] = "waiting"
    /\ semaphore_free(Cardinality(Extracting), max_concurrent)
    /\ fan' = IF i = 1 /\ fan.chunks > 1
              THEN [fan EXCEPT !.xw[i] = "started", !.started[i] = @ + 1,
                               !.chunks_todo = fan.chunks]
              ELSE [fan EXCEPT !.xw[i] = "started", !.started[i] = @ + 1,
                               !.llm_calls[i] = @ + 1]
    /\ FanFrame

\* extract_document._extract_chunk: "async with chunk_semaphore"
ChunkStart ==
    /\ fan.chunks_todo > 0
    /\ semaphore_free(fan.chunks_running, chunk_concurrent)
    /\ fan' = [fan EXCEPT !.chunks_todo = @ - 1, !.chunks_running = @ + 1,
                          !.llm_calls[1] = @ + 1]
    /\ FanFrame

\* extract_document._extract_chunk: _extract_single returned, or raised
\* twice: gather then raises in extract_document, the other chunk tasks
\* are not cancelled
ChunkFinish ==
    /\ fan.chunks_running > 0
    /\ \/ fan' = [fan EXCEPT !.chunks_running = @ - 1]
       \/ fan' = [fan EXCEPT !.chunks_running = @ - 1,
                             !.chunk_failed = TRUE]
    /\ FanFrame

\* extract_document of document i can return
ExtractionOver(i) ==
    IF i = 1 /\ fan.chunks > 1
    THEN fan.chunk_failed \/ (fan.chunks_todo = 0 /\ fan.chunks_running = 0)
    ELSE TRUE

\* extract_all._extract_one: extract_document returned its result
\* (on_completed) or the empty result with the note "Extraction failed:"
\* (on_error, when given); the semaphore is released
ExtractOneFinish(i) ==
    /\ fan.pc = "gather"
    /\ i \in 1..fan.n
    /\ fan.xw[i] = "started"
    /\ ExtractionOver(i)
    /\ \/ /\ ~(i = 1 /\ fan.chunk_failed)
          /\ fan' = [fan EXCEPT !.xw[i] = "finished", !.slot[i] = "ok",
                                !.completed[i] = @ + 1]
       \/ /\ (i = 1 /\ fan.chunks > 1) => fan.chunk_failed
          /\ fan' = [fan EXCEPT !.xw[i] = "finished", !.slot[i] = "failed",
                                !.errors[i] = IF fan.on_error THEN @ + 1
                                              ELSE @,
                                !.llm_calls[i] =
                                    IF i = 1 /\ fan.chunks > 1 THEN @
                                    ELSE @ + 1]
    /\ FanFrame

\* extract_all: gather has every result, in task order; results.extend;
\* results.sort(key=lambda x: x[0]); return the items
ExtractAllReturn ==
    /\ fan.pc = "gather"
    /\ \A i \in 1..fan.n : fan.xw[i] \in {"none", "finished"}
    /\ LET skipped == Ascending(fan.n, {i \in 1..fan.n : IsErrorDoc(i)})
           tasks == Ascending(fan.n, {i \in 1..fan.n : ~IsErrorDoc(i)})
           results == [k \in 1..Len(skipped) |->
                          Indexed(skipped[k], "skipped")]
                      \o [k \in 1..Len(tasks) |->
                            Indexed(tasks[k], fan.slot[tasks[k]])]
       IN fan' = [fan EXCEPT !.extractions = sort_by_index(results),
                             !.pc = "returned"]
    /\ FanFrame

NextFan ==
    \/ \E i \in 1..MaxDocs : ParseStart(i)
    \/ \E i \in 1..MaxDocs : ParseFinish(i)
    \/ ParseAllReturn
    \/ ExtractAllBegin
    \/ \E i \in 1..MaxDocs : ExtractOneStart(i)
    \/ ChunkStart
    \/ ChunkFinish
    \/ \E i \in 1..MaxDocs : ExtractOneFinish(i)
    \/ ExtractAllReturn

SpecFan == InitFan /\ [][NextFan]_vars

\* ------------------------------------------------------------ chunk_text

PureFrame ==
    UNCHANGED <<analysisVars, storeVars, streamVars, thinkVars, llmVars,
                fanVars>>

\* chunk_text(content, max_chars) is called by extract_document with
\* max_chars = calculate_max_chars(context_length)
InitChunk ==
    /\ InitAnalysis
    /\ spc = "off"
    /\ ThinkingIdle
    /\ llm = LLMIdle
    /\ fan = FanIdle
    /\ mg = Idle
    /\ zp = Idle
    /\ req = Idle
    /\ xd = Idle
    /\ created = Idle
    /\ \E context_length \in ContextLengths :
          \E len \in Lengths(calculate_max_chars(context_length)) :
             ck = [pc |-> "called",
                   max_chars |-> calculate_max_chars(context_length),
                   len |-> len, start |-> 0, chunks |-> <<>>]

\* "if len(content) <= max_chars: return [content]", else the loop begins
ChunkTextBegin ==
    /\ ck.pc = "called"
    /\ ck' = IF ck.len <= ck.max_chars
             THEN [ck EXCEPT !.pc = "returned",
                             !.chunks = <<Slice(0, ck.len, ck.len)>>]
             ELSE [ck EXCEPT !.pc = "while"]
    /\ UNCHANGED <<mg, zp, req, xd, created>>
    /\ PureFrame

\* one pass of "while start < len(content)", or its exit
ChunkTextLoop ==
    /\ ck.pc = "while"
    /\ IF ck.start < ck.len
       THEN /\ Len(ck.chunks) < MaxPasses
            /\ \E end \in IF ck.start + ck.max_chars < ck.len
                          THEN StructureBreaks(
                                   ck.start + ck.max_chars \div 2,
                                   ck.start + ck.max_chars, ck.len)
                          ELSE {ck.start + ck.max_chars} :
                  ck' = [ck EXCEPT
                           !.chunks = Append(@, Slice(ck.start, end, ck.len)),
                           !.start = end - overlap_chars(ck.max_chars)]
       ELSE ck' = [ck EXCEPT !.pc = "returned"]
    /\ UNCHANGED <<mg, zp, req, xd, created>>
    /\ PureFrame

NextChunk ==
    \/ ChunkTextBegin
    \/ ChunkTextLoop

SpecChunk == InitChunk /\ [][NextChunk]_vars

\* chunk_text(content, max_chars) is called with any positive max_chars:
\* values around the minimum overlap of 2_000 characters and around twice
\* that, and texts of up to two windows and a character
MaxCharsAny == {1, 2, 2000, 2001, 4001, 4002}

InitChunkAny ==
    /\ InitAnalysis
    /\ spc = "off"
    /\ ThinkingIdle
    /\ llm = LLMIdle
    /\ fan = FanIdle
    /\ mg = Idle
    /\ zp = Idle
    /\ req = Idle
    /\ xd = Idle
    /\ created = Idle
    /\ \E max_chars \in MaxCharsAny :
          \E len \in {0, max_chars, max_chars + 1, 2 * max_chars + 1} :
             ck = [pc |-> "called", max_chars |-> max_chars, len |-> len,
                   start |-> 0, chunks |-> <<>>]

SpecChunkAny == InitChunkAny /\ [][NextChunk]_vars

\* ----------------------------------------------- merge_chunk_extractions

\* merge_chunk_extractions(results) is called with no result, one result,
\* or two
InitMerge ==
    /\ InitAnalysis
    /\ spc = "off"
    /\ ThinkingIdle
    /\ llm = LLMIdle
    /\ fan = FanIdle
    /\ ck = Idle
    /\ zp = Idle
    /\ req = Idle
    /\ xd = Idle
    /\ created = Idle
    /\ \E results \in SeqsUpTo(ExtractionResults, 2) :
          mg = [pc |-> "called", results |-> results, base |-> EmptyResult,
                next |-> 2, out |-> EmptyResult]

\* "if not results", "if len(results) == 1", "base = results[0].model_dump()"
MergeBegin ==
    /\ mg.pc = "called"
    /\ mg' = IF mg.results = <<>>
             THEN [mg EXCEPT !.pc = "returned", !.out = EmptyResult]
             ELSE IF Len(mg.results) = 1
             THEN [mg EXCEPT !.pc = "returned", !.out = mg.results[1]]
             ELSE [mg EXCEPT !.pc = "for", !.base = mg.results[1]]
    /\ UNCHANGED <<ck, zp, req, xd, created>>
    /\ PureFrame

\* one pass of "for r in results[1:]"
MergeStep ==
    /\ mg.pc = "for"
    /\ mg.next <= Len(mg.results)
    /\ mg' = [mg EXCEPT !.base = merge_into(mg.base, mg.results[mg.next]),
                        !.next = @ + 1]
    /\ UNCHANGED <<ck, zp, req, xd, created>>
    /\ PureFrame

\* "return ExtractionResult.model_validate(base)"
MergeReturn ==
    /\ mg.pc = "for"
    /\ mg.next > Len(mg.results)
    /\ mg' = [mg EXCEPT !.pc = "returned", !.out = model_validate(mg.base)]
    /\ UNCHANGED <<ck, zp, req, xd, created>>
    /\ PureFrame

NextMerge ==
    \/ MergeBegin
    \/ MergeStep
    \/ MergeReturn

SpecMerge == InitMerge /\ [][NextMerge]_vars

\* --------------------------------------------- zip_extractor.extract_files
\* Paths and archive entries are modelled by their extension: "zip", the
\* supported "pdf", the unsupported "txt".
SUPPORTED_EXTENSIONS == {"pdf"}

\* _extract_zip's default _max_depth
_max_depth == 10

depth_exceeded_never(_depth, limit) == FALSE

\* if _depth > _max_depth: return []
depth_exceeded(_depth, limit) == _depth > limit

\* upload_paths of one extract_files call
Uploads == {<<>>, <<"zip">>, <<"pdf", "zip", "txt">>}

\* What zipfile.ZipFile(zip_path) yields for an archive found at nesting
\* level d: BadZipFile, or its non-directory entries in infolist() order.
\* The upload is finite: an archive at level MaxNesting holds no archive.
ArchiveContents(d) ==
    {[bad |-> TRUE, entries |-> <<>>]} \cup
    {[bad |-> FALSE, entries |-> e] :
        e \in IF d < MaxNesting
              THEN {<<>>, <<"pdf">>, <<"zip">>, <<"zip", "pdf">>,
                    <<"txt", "zip">>}
              ELSE {<<>>, <<"pdf">>, <<"txt">>}}

\* one activation of _extract_zip
Frame(d) == [pc |-> "enter", _depth |-> d, entries |-> <<>>, results |-> <<>>]

\* one (path, original_name) tuple, tagged with the level of the archive
\* it was extracted from (0 for a direct upload)
Extracted(origin, d) == [origin |-> origin, _depth |-> d]

Top == zp.stack[Len(zp.stack)]

SetTop(f) == [zp.stack EXCEPT ![Len(zp.stack)] = f]

InitZip ==
    /\ InitAnalysis
    /\ spc = "off"
    /\ ThinkingIdle
    /\ llm = LLMIdle
    /\ fan = FanIdle
    /\ ck = Idle
    /\ mg = Idle
    /\ req = Idle
    /\ xd = Idle
    /\ created = Idle
    /\ \E upload_paths \in Uploads :
        zp = [pc |-> "extract_files", upload_paths |-> upload_paths,
              results |-> <<>>, stack |-> <<>>, opened |-> {},
              skipped |-> {}]

\* for path in upload_paths: one iteration, up to the call of _extract_zip
ExtractFilesLoop ==
    /\ zp.pc = "extract_files"
    /\ zp.stack = <<>>
    /\ zp.upload_paths # <<>>
    /\ LET ext == Head(zp.upload_paths) IN
        zp' = IF ext = "zip"
              THEN [zp EXCEPT !.upload_paths = Tail(@),
                              !.stack = <<Frame(0)>>]
              ELSE IF ext \in SUPPORTED_EXTENSIONS
              THEN [zp EXCEPT !.upload_paths = Tail(@),
                              !.results = Append(@, Extracted("upload", 0))]
              ELSE [zp EXCEPT !.upload_paths = Tail(@)]
    /\ UNCHANGED <<ck, mg, req, xd, created>>
    /\ PureFrame

\* _extract_zip entered beyond the depth limit: return [] without opening
ZipDepthExceeded ==
    /\ zp.pc = "extract_files"
    /\ zp.stack # <<>>
    /\ Top.pc = "enter"
    /\ depth_exceeded(Top._depth, _max_depth)
    /\ zp' = [zp EXCEPT !.stack = SetTop([Top EXCEPT !.pc = "return"]),
                        !.skipped = @ \cup {Top._depth}]
    /\ UNCHANGED <<ck, mg, req, xd, created>>
    /\ PureFrame

\* with zipfile.ZipFile(zip_path, "r") as zf; a corrupt archive is caught
\* and the empty results are returned
ZipOpen ==
    /\ zp.pc = "extract_files"
    /\ zp.stack # <<>>
    /\ Top.pc = "enter"
    /\ ~depth_exceeded(Top._depth, _max_depth)
    /\ \E content \in ArchiveContents(Top._depth) :
        zp' = [zp EXCEPT
                 !.stack = SetTop(IF content.bad
                                  THEN [Top EXCEPT !.pc = "return"]
                                  ELSE [Top EXCEPT !.pc = "loop",
                                             !.entries = content.entries]),
                 !.opened = @ \cup {Top._depth}]
    /\ UNCHANGED <<ck, mg, req, xd, created>>
    /\ PureFrame

\* for info in zf.infolist(): one entry, up to the recursive call
ZipEntry ==
    /\ zp.pc = "extract_files"
    /\ zp.stack # <<>>
    /\ Top.pc = "loop"
    /\ Top.entries # <<>>
    /\ LET ext == Head(Top.entries)
           rest == [Top EXCEPT !.entries = Tail(@)]
       IN  zp' = IF ext = "zip"
                 THEN [zp EXCEPT !.stack =
                          Append(SetTop(rest), Frame(Top._depth + 1))]
                 ELSE IF ext \in SUPPORTED_EXTENSIONS
                 THEN [zp EXCEPT !.stack = SetTop(
                          [rest EXCEPT !.results =
                              Append(@, Extracted("zip", Top._depth))])]
                 ELSE [zp EXCEPT !.stack = SetTop(rest)]
    /\ UNCHANGED <<ck, mg, req, xd, created>>
    /\ PureFrame

\* the entries are exhausted: return results
ZipLoopEnd ==
    /\ zp.pc = "extract_files"
    /\ zp.stack # <<>>
    /\ Top.pc = "loop"
    /\ Top.entries = <<>>
    /\ zp' = [zp EXCEPT !.stack = SetTop([Top EXCEPT !.pc = "return"])]
    /\ UNCHANGED <<ck, mg, req, xd, created>>
    /\ PureFrame

\* the caller's results.extend(nested_results) / results.extend(extracted)
ZipReturn ==
    /\ zp.pc = "extract_files"
    /\ zp.stack # <<>>
    /\ Top.pc = "return"
    /\ LET n == Len(zp.stack)
           below == SubSeq(zp.stack, 1, n - 1)
       IN  zp' = IF n = 1
                 THEN [zp EXCEPT !.stack = <<>>,
                                 !.results = @ \o Top.results]
                 ELSE [zp EXCEPT !.stack =
                          [below EXCEPT ![n - 1].results = @ \o Top.results]]
    /\ UNCHANGED <<ck, mg, req, xd, created>>
    /\ PureFrame

\* extract_files: return results
ExtractFilesReturn ==
    /\ zp.pc = "extract_files"
    /\ zp.stack = <<>>
    /\ zp.upload_paths = <<>>
    /\ zp' = [zp EXCEPT !.pc = "returned"]
    /\ UNCHANGED <<ck, mg, req, xd, created>>
    /\ PureFrame

NextZip ==
    \/ ExtractFilesLoop
    \/ ZipDepthExceeded
    \/ ZipOpen
    \/ ZipEntry
    \/ ZipLoopEnd
    \/ ZipReturn
    \/ ExtractFilesReturn

SpecZip == InitZip /\ [][NextZip]_vars

\* extract_files is one coroutine with no await on anything but itself:
\* it keeps running while it has a step to take
SpecZipFair == SpecZip /\ WF_vars(NextZip)

\* ------------------------------- _sanitize_filename, the entry's target
\* the characters of the modelled entry names: the separators, the dot,
\* the colon of a drive prefix, two ordinary letters
Chars == {"/", "\\", ".", ":", "a", "C"}

\* cleaned.split("/"), and the components of a POSIX path
RECURSIVE split(_)
split(s) ==
    IF s = <<>> THEN << <<>> >>
    ELSE LET rest == split(Tail(s)) IN
         IF Head(s) = "/" THEN << <<>> >> \o rest
         ELSE << <<Head(s)>> \o Head(rest) >> \o Tail(rest)

\* os.path.join(*parts) of parts that hold no separator
RECURSIVE join(_)
join(parts) ==
    IF Len(parts) = 1 THEN parts[1]
    ELSE parts[1] \o <<"/">> \o join(Tail(parts))

\* the return value of _sanitize_filename: None, or the joined parts
_sanitize_filename(filename) ==
    LET cleaned == [i \in DOMAIN filename |->
                       IF filename[i] = "\\" THEN "/" ELSE filename[i]]
        parts == SelectSeq(split(cleaned), LAMBDA part :
                     /\ part \notin {<<>>, <<".">>, <<".", ".">>}
                     /\ ~(Len(part) = 2 /\ part[2] = ":"))
    IN  IF parts = <<>> THEN [none |-> TRUE, name |-> <<>>]
        ELSE [none |-> FALSE, name |-> join(parts)]

\* (dest_dir / name).resolve() against dest_dir.resolve(): the components
\* below dest_dir, or outside it.  dest_dir is a fresh mkdtemp directory:
\* it holds no symbolic link, and a path that has left it does not name it.
RECURSIVE resolve_walk(_, _)
resolve_walk(comps, below) ==
    IF comps = <<>> THEN [inside |-> TRUE, parts |-> below]
    ELSE IF Head(comps) \in {<<>>, <<".">>}
    THEN resolve_walk(Tail(comps), below)
    ELSE IF Head(comps) = <<".", ".">>
    THEN IF below = <<>> THEN [inside |-> FALSE, parts |-> <<>>]
         ELSE resolve_walk(Tail(comps), SubSeq(below, 1, Len(below) - 1))
    ELSE resolve_walk(Tail(comps), Append(below, Head(comps)))

\* an absolute name replaces dest_dir in "dest_dir / name"
resolve(name) ==
    IF name # <<>> /\ name[1] = "/"
    THEN [inside |-> FALSE, parts |-> <<>>]
    ELSE resolve_walk(split(name), <<>>)

\* zf.extract-like handling of an entry: its name is joined to dest_dir
\* as it is
extract_entry_raw(filename, io_ok) ==
    [written |-> io_ok, target |-> resolve(filename)]

\* the body of "for info in zf.infolist()" up to the write of a
\* non-directory entry; io_ok: open and write did not raise
extract_entry(filename, io_ok) ==
    LET safe_name == _sanitize_filename(filename)
        target_path == resolve(safe_name.name)
    IN  IF safe_name.none \/ ~target_path.inside
        THEN [written |-> FALSE, target |-> target_path]
        ELSE [written |-> io_ok, target |-> target_path]

InitSanitize ==
    /\ InitAnalysis
    /\ spc = "off"
    /\ ThinkingIdle
    /\ llm = LLMIdle
    /\ fan = FanIdle
    /\ ck = Idle
    /\ mg = Idle
    /\ req = Idle
    /\ xd = Idle
    /\ created = Idle
    /\ \E filename \in SeqsUpTo(Chars, MaxNameLen) :
        zp = [pc |-> "entry", filename |-> filename]

ZipEntryName ==
    /\ zp.pc = "entry"
    /\ \E io_ok \in BOOLEAN :
        zp' = [pc |-> "next_entry", filename |-> zp.filename,
               out |-> extract_entry(zp.filename, io_ok)]
    /\ UNCHANGED <<ck, mg, req, xd, created>>
    /\ PureFrame

SpecSanitize == InitSanitize /\ [][ZipEntryName]_vars

\* ------------------------------------------- create_analysis, validation
\* analyze.py: SUPPORTED_EXTENSIONS, the upload whitelist (with .zip)
SUPPORTED_UPLOAD_EXTENSIONS == {"pdf", "zip"}

\* the files of a request: UploadFile.filename present or not, its suffix,
\* len(content)
UploadFiles ==
    [named : BOOLEAN, ext : {"pdf", "zip", "txt"},
     size : {1, MAX_FILE_SIZE, MAX_FILE_SIZE + 1}]

\* len(files) of a request r: r.files, followed by r.others files that are
\* named, of a supported format and of size 1
len_files(r) == Len(r.files) + r.others

validation_error_none(r) == FALSE

\* create_analysis raises HTTPException(400) before anything is saved
validation_error(r) ==
    \/ len_files(r) > MAX_FILES
    \/ len_files(r) = 0
    \/ \E i \in DOMAIN r.files :
          \/ r.files[i].named
             /\ r.files[i].ext \notin SUPPORTED_UPLOAD_EXTENSIONS
          \/ r.files[i].size > MAX_FILE_SIZE

\* a request has arrived: no record, no lane, no task
InitCreate ==
    /\ status = Null
    /\ report = Null
    /\ qa = Null
    /\ metrics = Null
    /\ error = Null
    /\ events = <<>>
    /\ documents = 0
    /\ lane = FALSE
    /\ pc = "start"
    /\ stage = 0
    /\ event_index = 0
    /\ cur = NoEvent
    /\ propagate = FALSE
    /\ files = <<>>
    /\ ex = <<>>
    /\ cpc = "idle"
    /\ crec = Null
    /\ cancels = 0
    /\ storeFails = 0
    /\ storeBudget = MaxStoreFailures
    /\ terminalWrites = 0
    /\ removeCount = 0
    /\ started = FALSE
    /\ raised = FALSE
    /\ canceledActive = FALSE
    /\ canceledExtracting = FALSE
    /\ srec = Null
    /\ last_event_index = 0
    /\ last_status = Null
    /\ delivered = <<>>
    /\ sse_last = "none"
    /\ completes = 0
    /\ spc = "off"
    /\ ThinkingIdle
    /\ llm = LLMIdle
    /\ fan = FanIdle
    /\ ck = Idle
    /\ mg = Idle
    /\ zp = Idle
    /\ xd = Idle
    /\ created = Idle
    /\ \E fs \in SeqsUpTo(UploadFiles, MaxReqFiles),
          others \in {0, MAX_FILES - 1, MAX_FILES} :
        req = [pc |-> "received", files |-> fs, others |-> others,
               task |-> FALSE]

CreateFrame ==
    UNCHANGED <<report, qa, metrics, error, terminalWrites, eventVars,
                runVars, stageVars, cancelVars, histVars, documents, lane,
                storeVars, streamVars, thinkVars, llmVars, fanVars, ck, mg,
                zp, xd, created>>

\* the checks of the file count and of each file
CreateValidate ==
    /\ req.pc = "received"
    /\ req' = [req EXCEPT !.pc = IF validation_error(req) THEN "http_400"
                                 ELSE "validated"]
    /\ UNCHANGED status
    /\ CreateFrame

\* the files are saved, db.create_analysis stores the record or raises
CreateRecord ==
    /\ req.pc = "validated"
    /\ \E ok \in BOOLEAN :
        /\ req' = [req EXCEPT !.pc = IF ok THEN "created" ELSE "http_500"]
        /\ status' = IF ok THEN "pending" ELSE status
    /\ CreateFrame

\* asyncio.create_task(_run_pipeline()), and the response
CreateSpawn ==
    /\ req.pc = "created"
    /\ req' = [req EXCEPT !.pc = "http_202", !.task = TRUE]
    /\ UNCHANGED status
    /\ CreateFrame

NextCreate ==
    \/ CreateValidate
    \/ CreateRecord
    \/ CreateSpawn

SpecCreate == InitCreate /\ [][NextCreate]_vars

\* ------------------------------------------------------ extract_document
\* what follows an _extract_single call that raised: the streaming call is
\* inside "try ... except Exception" (sleep, then the call with
\* use_streaming=False), the second call is not
on_raise_again(use_streaming) == "sleep"
on_raise(use_streaming) == IF use_streaming THEN "sleep" ELSE "raised"

\* extract_document(doc, ...): chunk_text gave n chunks.  One unit per
\* chunk; for n = 1 the unit is the document
InitExtractDocument ==
    /\ InitAnalysis
    /\ spc = "off"
    /\ ThinkingIdle
    /\ llm = LLMIdle
    /\ fan = FanIdle
    /\ ck = Idle
    /\ mg = Idle
    /\ zp = Idle
    /\ req = Idle
    /\ created = Idle
    /\ \E n \in 1..MaxChunks :
        xd = [pc |-> "called", result |-> "none",
              units |-> [i \in 1..n |->
                  [pc |-> "todo", use_streaming |-> TRUE, attempts |-> 0,
                   first |-> "none", slept |-> 0]]]

XdFrame ==
    /\ UNCHANGED <<ck, mg, zp, req, created>>
    /\ PureFrame

\* _extract_single(doc) is called; a chunk first enters chunk_semaphore
ExtractSingleStart(i) ==
    /\ i \in DOMAIN xd.units
    /\ xd.units[i].pc = "todo"
    /\ Len(xd.units) > 1 =>
          semaphore_free(
              Cardinality({j \in DOMAIN xd.units :
                  xd.units[j].pc \in {"call", "sleep"}}), chunk_concurrent)
    /\ xd' = [xd EXCEPT !.units[i].pc = "call", !.units[i].attempts = 1]
    /\ XdFrame

\* the _extract_single call in progress returns or raises
ExtractSingleEnd(i) ==
    /\ i \in DOMAIN xd.units
    /\ xd.units[i].pc = "call"
    /\ \E outcome \in {"returned", "raised"} :
        xd' = [xd EXCEPT
                 !.units[i].pc =
                     IF outcome = "returned" THEN "returned"
                     ELSE on_raise(xd.units[i].use_streaming),
                 !.units[i].first =
                     IF xd.units[i].attempts = 1 THEN outcome ELSE @]
    /\ XdFrame

\* "await asyncio.sleep(2)", then _extract_single(use_streaming=False)
ExtractSingleRetry(i) ==
    /\ i \in DOMAIN xd.units
    /\ xd.units[i].pc = "sleep"
    /\ xd' = [xd EXCEPT !.units[i].pc = "call",
                        !.units[i].use_streaming = FALSE,
                        !.units[i].attempts = @ + 1,
                        !.units[i].slept = @ + 2]
    /\ XdFrame

\* extract_document returns: the result (merged, for several chunks) once
\* every unit has returned, the "Extraction failed" result as soon as one
\* unit has raised (asyncio.gather raises the first exception; the other
\* chunk tasks go on)
ExtractDocumentReturn ==
    /\ xd.pc = "called"
    /\ \/ \E i \in DOMAIN xd.units : xd.units[i].pc = "raised"
       \/ \A i \in DOMAIN xd.units : xd.units[i].pc = "returned"
    /\ xd' = [xd EXCEPT !.pc = "returned",
                        !.result =
                            IF \E i \in DOMAIN xd.units :
                                   xd.units[i].pc = "raised"
                            THEN "failed" ELSE "ok"]
    /\ XdFrame

NextExtractDocument ==
    \/ \E i \in 1..MaxChunks : ExtractSingleStart(i)
    \/ \E i \in 1..MaxChunks : ExtractSingleEnd(i)
    \/ \E i \in 1..MaxChunks : ExtractSingleRetry(i)
    \/ ExtractDocumentReturn

SpecExtractDocument == InitExtractDocument /\ [][NextExtractDocument]_vars

\* ------------------------------------------------------- _build_progress
\* progress_percent of the record (st, evs, m), total_files being the
\* value metrics_json holds when it is set.  int(a / b * 100) and
\* int(p * 0.30) are floor((100 a) / b) and floor((3 p) / 10) for the
\* counts that occur here (a, b <= MaxFiles + 1).
_build_progress(st, evs, m, total_files) ==
    LET count(t) == Cardinality({i \in DOMAIN evs : evs[i].event_type = t})
        docs_parsed == count("file_parsed")
        docs_total == IF m = Null THEN docs_parsed ELSE total_files
        extraction_done == count("extraction_completed")
        extraction_pct == (extraction_done * 100) \div docs_total
        analysis_status ==
            [x \in {"pending", "unpacking", "parsing", "extracting",
                    "aggregating", "evaluating", "completed", "failed",
                    "canceled"} |->
                CASE x = "unpacking" -> 5
                  [] x = "parsing" -> 15
                  [] x = "extracting" -> 40
                  [] x = "aggregating" -> 70
                  [] x = "evaluating" -> 85
                  [] x = "completed" -> 100
                  [] OTHER -> 0]
    IN  IF st = "extracting" /\ docs_total > 0
        THEN 40 + ((extraction_pct * 3) \div 10)
        ELSE analysis_status[st]

\* ------------------------------------------------------------------ Next
Next ==
    \/ WStart
    \/ NoKey
    \/ WFail
    \/ PipelineInit
    \/ CheckCancellation
    \/ UpdateStatus
    \/ Emit
    \/ Unpack
    \/ \E i \in 1..MaxFiles : ParseOne(i)
    \/ ParseEnd
    \/ AddDocument
    \/ ExtractBegin
    \/ \E i \in 1..MaxFiles : ExtractStart(i)
    \/ \E i \in 1..MaxFiles : ExtractFinish(i)
    \/ ExtractEnd
    \/ Aggregate
    \/ Evaluate
    \/ Save
    \/ HandlerUpdate
    \/ Finally
    \/ CancelRead
    \/ CancelWrite

Spec == Init /\ [][Next]_vars

\* the pipeline and cancel_analysis with one connected stream client
NextStream ==
    \/ Next
    \/ StreamPoll
    \/ StreamEvents
    \/ StreamDisconnect

SpecStream == InitStream /\ [][NextStream]_vars

TypeOK ==
    /\ status \in {StatusOrder[i] : i \in 1..7} \cup Terminal
    /\ lane \in BOOLEAN
    /\ event_index \in Nat
    /\ documents \in 0..MaxFiles
    /\ storeFails \in 0..MaxStoreFailures
    /\ terminalWrites \in Nat
    /\ removeCount \in Nat

\* ============================================================ properties

\* position of a status in StatusOrder (0 if it is not in it)
OrderIndex(st) ==
    IF \E i \in 1..Len(StatusOrder) : StatusOrder[i] = st
    THEN CHOOSE i \in 1..Len(StatusOrder) : StatusOrder[i] = st
    ELSE 0

\* this step stores a value in the status field
WroteStatus == status' # status \/ terminalWrites' # terminalWrites

\* this step appends an event of type t to the durable lane
Appended(t) ==
    /\ Len(events') = Len(events) + 1
    /\ events'[Len(events')].event_type = t

\* the positions of _run_pipeline between the construction of the
\* AnalysisPipeline and the end of the finally block of run()
RunPcs ==
    {"chk", "upd", "unpack", "parse", "adddoc", "extract_begin", "extract",
     "agg", "eval", "save", "emit", "h_upd", "finally"}

\* events of the stages after extracting
LaterStageEvents ==
    {"aggregation_started", "aggregation_completed", "evaluation_started",
     "evaluation_completed", "metrics_update"}

\* C1: while AnalysisPipeline.run interleaves with cancel_analysis, the
\* values successively stored in the status field form a prefix of pending,
\* unpacking, ..., completed, possibly ended by one final failed or
\* canceled: every value stored follows a non-terminal value and is either
\* its successor in the order or failed/canceled.
C1_StatusProgression ==
    [][(started /\ WroteStatus) =>
          /\ status \notin Terminal
          /\ \/ status' \in {"failed", "canceled"}
             \/ /\ OrderIndex(status) > 0
                /\ OrderIndex(status') = OrderIndex(status) + 1]_vars

\* C2: terminal statuses are absorbing: once the stored status is
\* completed, failed or canceled no step changes it.
C2_TerminalAbsorbing ==
    [][(status \in Terminal) => (status' = status)]_vars

\* C3: when the background task of a started analysis has ended, exactly
\* one terminal status value has been written and remove_stream has been
\* called exactly once.
C3_OneTerminalWriteOneRemoval ==
    (started /\ pc = "done") => (terminalWrites = 1 /\ removeCount = 1)

C5_CancelDuringExtracting ==
    canceledExtracting =>
        /\ \A i \in 1..Len(events) :
              events[i].event_type \notin LaterStageEvents
        /\ pc = "done" => status = "canceled"

\* C6: if cancel_analysis wrote canceled while the analysis was in an
\* active stage, the stored report and qa stay null.
C6_NoReportAfterCancel ==
    canceledActive => (report = Null /\ qa = Null)

\* C7: for every interleaving of cancel_analysis with the terminal write
\* of the pipeline, a stored status completed or failed never becomes
\* canceled, and the cancel leaves report, error and events unchanged.
C7_CancelOnTerminalNoOp ==
    [][(started /\ status \in {"completed", "failed"}) =>
          /\ status' # "canceled"
          /\ (cpc = "read" /\ cpc' = "idle") =>
                (report' = report /\ error' = error /\ events' = events)]_vars

\* C8: once cancel_analysis has written canceled over an active stage, no
\* step appends an error event and no step writes the status failed.
C8_CancelBypassesErrorPath ==
    [][canceledActive =>
          /\ ~Appended("error")
          /\ ~(WroteStatus /\ status' = "failed")]_vars

\* C9: when a stage raised and the background task has ended, the stored
\* status is failed, the error is set and the last event of the durable
\* lane is an error event carrying the highest index.
C9_StageFailureEndsFailed ==
    (raised /\ pc = "done") =>
        /\ status = "failed"
        /\ error # Null
        /\ Len(events) > 0
        /\ events[Len(events)].event_type = "error"
        /\ \A i \in 1..Len(events) :
              events[i].index <= events[Len(events)].index

\* C10: the stored event list holds the event with index i at position i
\* (indices start at 0 and are contiguous), so get_events(A, N) returns
\* the events with indices N, N+1, ..., M.
C10_EventIndicesDense ==
    /\ \A i \in 1..Len(events) : events[i].index = i - 1
    /\ \A n \in 0..Len(events) :
          \A j \in 1..Len(get_events(events, n)) :
              get_events(events, n)[j].index = n + j - 1

\* the stage an event type belongs to, in the order of run() (0: none)
StageRank(t) ==
    CASE t = "file_parsed" -> 1
      [] t \in {"extraction_started", "extraction_completed"} -> 2
      [] t = "aggregation_started" -> 3
      [] t = "aggregation_completed" -> 4
      [] t = "evaluation_started" -> 5
      [] t = "evaluation_completed" -> 6
      [] t = "metrics_update" -> 7
      [] OTHER -> 0

\* the events run() itself emits from aggregation on, in program order
RunTail ==
    <<"aggregation_started", "aggregation_completed", "evaluation_started",
      "evaluation_completed", "metrics_update">>

\* number of events of type t in the durable lane
CountEvents(t) ==
    Cardinality({i \in 1..Len(events) : events[i].event_type = t})

\* run() has returned through its last statement and completed is stored
Success == pc = "done" /\ status = "completed" /\ ~raised

\* C11: in the durable lane of a successful analysis the events appear in
\* stage order: file_parsed events, then extraction_started and
\* extraction_completed events, then aggregation_started,
\* aggregation_completed, evaluation_started, evaluation_completed and
\* metrics_update as the last five events.
C11_EventsInStageOrder ==
    Success =>
        /\ \A i, j \in 1..Len(events) :
              (i < j /\ StageRank(events[i].event_type) > 0
                     /\ StageRank(events[j].event_type) > 0)
                 => StageRank(events[i].event_type)
                       <= StageRank(events[j].event_type)
        /\ Len(events) >= Len(RunTail)
        /\ \A k \in 1..Len(RunTail) :
              events[Len(events) - Len(RunTail) + k].event_type = RunTail[k]
        /\ \A k \in 1..Len(RunTail) : CountEvents(RunTail[k]) = 1

\* C11 witness: a successful analysis whose durable lane holds events of
\* the spawned tasks of both stages before the events of run().
C11_Witness ==
    /\ Success
    /\ CountEvents("file_parsed") >= 2
    /\ CountEvents("extraction_started") >= 1
    /\ CountEvents("extraction_completed") >= 1

\* C12: when no store call failed and the analysis completed, the durable
\* lane holds one extraction_completed event per extracted document and
\* exactly one error event per document that was skipped as [ERROR] or
\* whose extraction failed.
C12_ErrorEventPerFailedDocument ==
    (Success /\ storeFails = 0) =>
        /\ CountEvents("extraction_completed")
              = Cardinality({i \in DOMAIN ex : ex[i] = "done"})
        /\ CountEvents("extraction_started")
              >= CountEvents("extraction_completed")
        /\ CountEvents("error")
              = Cardinality({i \in DOMAIN ex : ex[i] \in {"skipped", "failed"}})

\* C13: a client connected before the pipeline starts, and never
\* disconnecting, has received one message per durable event ever appended,
\* each once and in index order, when the stream has sent complete.
C13_StreamDeliversEveryEvent ==
    completes > 0 =>
        /\ Len(delivered) = Len(events)
        /\ \A i \in 1..Len(delivered) : delivered[i].index = events[i].index
        /\ \A i, j \in 1..Len(delivered) :
              i < j => delivered[i].index < delivered[j].index

\* C14: a stream that ended by itself ended with a complete or an error
\* message; complete is sent at most once, only after the stream read a
\* terminal status, it is the last message, and no message follows it.
C14_StreamEndsWithComplete ==
    /\ [](/\ completes <= 1
          /\ spc = "done" => sse_last \in {"complete", "error"}
          /\ completes = 1 =>
                (spc = "done" /\ sse_last = "complete"
                    /\ srec \in Terminal /\ last_status = srec))
    /\ [][completes >= 1 =>
            UNCHANGED <<delivered, sse_last, completes, spc>>]_vars

\* C14 witness: the stream has delivered durable events and has closed with
\* complete after reading a terminal status.
C14_Witness ==
    /\ spc = "done"
    /\ completes = 1
    /\ sse_last = "complete"
    /\ srec \in Terminal
    /\ Len(delivered) > 0

\* C15: the lane never holds more than 500 chunks, and a push of a thinking
\* chunk onto a full lane discards exactly the oldest chunk and leaves the
\* new chunk as the newest element, however pushes and drains interleave.
C15_LaneBoundedDropOldest ==
    /\ [](Len(q) <= 500)
    /\ [][(tcount' = tcount + 1 /\ Len(q) = 500) =>
             /\ Len(q') = 500
             /\ \A i \in 1..499 : q'[i] = q[i + 1]
             /\ q'[500].type = "thinking"
             /\ q'[500].text = tpushed + 1]_vars

\* C15 witness: a chunk was pushed onto a full lane: the lane is full, its
\* oldest chunk is no longer the first chunk pushed and its newest chunk is
\* the chunk pushed last.
C15_Witness ==
    /\ Len(q) = 500
    /\ tcount >= 1
    /\ last_consumed = NoChunk
    /\ q[1].text > 1
    /\ q[500].text = tpushed

\* the chunks in the order the consumer gets them: the one it got last,
\* then the lane
Stream == (IF last_consumed = NoChunk THEN <<>> ELSE <<last_consumed>>) \o q

\* C16: thinking chunks reach the consumer in the order they were pushed,
\* and a chunk of one phase is never directly followed by a chunk of
\* another phase: a thinking_done marker separates them.
C16_PhasesSeparatedByMarker ==
    /\ \A i, j \in 1..Len(Stream) :
          (i < j /\ Stream[i].type = "thinking" /\ Stream[j].type = "thinking")
             => Stream[i].text < Stream[j].text
    /\ \A i \in 1..(Len(Stream) - 1) :
          (Stream[i].type = "thinking" /\ Stream[i + 1].type = "thinking")
             => Stream[i].phase = Stream[i + 1].phase

\* the responses to the requests of the current _request_with_retry call
Resps == llm.resps

\* C17: a call of _request_with_retry sends requests until the first
\* response that is not a 429, a 5xx or a transport error, and at most 3:
\* every request but the last was answered by one of those; a call that
\* returned sent k <= 3 requests and returns the k-th response, the first
\* success; a call answered 429 three times sent exactly 3 requests and
\* raised LLMRateLimitError.
C17_RetryUntilFirstFinalResponse ==
    /\ Len(Resps) <= 3
    /\ \A i \in 1..(Len(Resps) - 1) : Resps[i] \in {0, 429, 500}
    /\ llm.pc = "request" =>
          /\ Len(Resps) = llm.attempt
          /\ Len(Resps) < 3
          /\ \A i \in 1..Len(Resps) : Resps[i] \in {0, 429, 500}
    /\ llm.pc = "response" =>
          /\ Len(Resps) >= 1
          /\ Resps[Len(Resps)] = 200
    /\ llm.pc = "raised" =>
          /\ Len(Resps) >= 1
          /\ Resps[Len(Resps)] # 200
          /\ Resps[Len(Resps)] \in {0, 429, 500} => Len(Resps) = 3
    /\ (Len(Resps) = 3 /\ \A i \in 1..3 : Resps[i] = 429) =>
          /\ llm.pc \in {"raised", "done"}
          /\ llm.exc = [class |-> "LLMRateLimitError", status_code |-> 429]

\* C17 witness: three requests were answered 429 and the call raised
\* LLMRateLimitError.
C17_Witness ==
    /\ llm.pc = "raised"
    /\ Resps = <<429, 429, 429>>
    /\ llm.exc.class = "LLMRateLimitError"

C19_OneCorrectionCall ==
    /\ llm.corrections <= 1
    /\ (llm.caller = "correction" /\ llm.pc \in {"request", "response"}) =>
          (llm.thinking = "off" /\ llm.temperature = "0.0")
    /\ (llm.result = "returned" /\ llm.correction_usage > 0) =>
          llm.result_usage = llm.usage + llm.correction_usage
    /\ llm.correction_failed =>
          /\ llm.pc = "done"
          /\ llm.result = "raised"
          /\ llm.exc.class = "LLMParseError"

\* C20: on empty content complete_structured repeats its call at most
\* twice (3 calls in total) and then raises LLMParseError; each repetition
\* raises _retry_count by one; and every complete_structured operation
\* comes to an end.
C20_EmptyContentBoundedRepeats ==
    /\ [](/\ llm.calls <= 3
          /\ llm.retry_count <= 2
          /\ llm.empties <= 3
          /\ llm.calls >= 1 => llm.calls = llm.retry_count + 1
          /\ llm.empties = 3 =>
                /\ llm.calls = 3
                /\ llm.pc = "done"
                /\ llm.result = "raised"
                /\ llm.exc.class = "LLMParseError")
    /\ [][(llm.calls >= 1 /\ llm'.calls > llm.calls) =>
             /\ llm'.calls = llm.calls + 1
             /\ llm'.retry_count = llm.retry_count + 1
             /\ llm'.empties = llm.empties + 1]_vars
    /\ (llm.op = "complete_structured") ~> (llm.pc = "done")

\* C20 witness: complete_structured got empty content three times, made
\* three calls and raised LLMParseError.
C20_Witness ==
    /\ llm.op = "complete_structured"
    /\ llm.pc = "done"
    /\ llm.empties = 3
    /\ llm.calls = 3
    /\ llm.exc.class = "LLMParseError"

\* C21: when complete_structured_streaming hits a fall-back condition
\* (non-200 on stream open, empty accumulated content, truncated JSON),
\* complete_structured is invoked exactly once for the request, and the
\* operation ends with what that invocation returned or raised.
C21_OneFallbackCall ==
    llm.fallback # "none" =>
        /\ llm.op = "complete_structured_streaming"
        /\ llm.invocations = 1

\* C22: parse_all and extract_all return exactly one result per input
\* document, in input order, whatever the order in which the workers
\* finished and whichever documents succeeded, failed or were skipped as
\* [ERROR] documents.
C22_ResultsInInputOrder ==
    /\ fan.pc \in {"extract_all", "gather", "returned"} =>
          /\ Len(fan.parsed_docs) = fan.n
          /\ \A i \in 1..fan.n :
                /\ fan.parsed_docs[i].index = i
                /\ fan.parsed_docs[i].kind = fan.parse[i]
    /\ fan.pc = "returned" =>
          /\ Len(fan.extractions) = fan.n
          /\ \A i \in 1..fan.n :
                /\ fan.extractions[i].index = i
                /\ fan.extractions[i].kind = fan.slot[i]

\* C22 witness: extract_all has returned the results of a document that
\* succeeded, an [ERROR] document after it, and a document that failed.
C22_Witness ==
    /\ fan.pc = "returned"
    /\ fan.n >= 3
    /\ fan.extractions[1].kind = "ok"
    /\ fan.extractions[2].kind = "skipped"
    /\ fan.extractions[3].kind = "failed"

\* C23: at no time are more than max_concurrent (5) files being parsed or
\* more than max_concurrent (5) documents being extracted, and at most 3
\* chunk extractions of one document are in flight.
C23_ConcurrencyLimits ==
    /\ Cardinality(Parsing) <= 5
    /\ Cardinality(Extracting) <= 5
    /\ fan.chunks_running <= 3

\* C23 witness: five documents are being extracted while a sixth waits, and
\* three chunks of the first document are in flight while a fourth waits.
C23_Witness ==
    /\ Cardinality(Extracting) = 5
    /\ \E i \in 1..fan.n : fan.xw[i] = "waiting"
    /\ fan.chunks_running = 3
    /\ fan.chunks_todo > 0

\* C24: a document whose extraction fails does not abort extract_all: the
\* call returns, the slot of the failed document holds the empty result
\* with the failure note and usage 0, and every other document's slot
\* holds that document's own result.
C24_FailureDoesNotAbort ==
    fan.pc = "returned" =>
        \A i \in 1..fan.n :
            /\ fan.slot[i] = "failed" =>
                  fan.extractions[i] =
                      [index |-> i, kind |-> "failed", usage |-> 0]
            /\ fan.slot[i] = "ok" =>
                  fan.extractions[i] =
                      [index |-> i, kind |-> "ok", usage |-> usage_of(i)]
            /\ fan.slot[i] = "skipped" =>
                  fan.extractions[i] =
                      [index |-> i, kind |-> "skipped", usage |-> 0]

\* C24 witness: extract_all returned although the extraction of a
\* document failed, and the documents before and after it have their
\* results.
C24_Witness ==
    /\ fan.pc = "returned"
    /\ fan.n >= 3
    /\ fan.extractions[1] = [index |-> 1, kind |-> "ok", usage |-> 10]
    /\ fan.extractions[2] = [index |-> 2, kind |-> "failed", usage |-> 0]
    /\ fan.extractions[3] = [index |-> 3, kind |-> "ok", usage |-> 30]

\* C25: for a document that is not an [ERROR] document on_started is
\* invoked exactly once and then exactly one of on_completed (success) or
\* on_error (failure); for an [ERROR] document only on_error is invoked and
\* no LLM call is made.
C25_CallbackProtocol ==
    fan.pc \in {"gather", "returned"} =>
        \A i \in 1..fan.n :
            IF IsErrorDoc(i)
            THEN /\ fan.errors[i] = 1
                 /\ fan.started[i] = 0
                 /\ fan.completed[i] = 0
                 /\ fan.llm_calls[i] = 0
            ELSE /\ fan.started[i] <= 1
                 /\ fan.completed[i] + fan.errors[i] <= fan.started[i]
                 /\ fan.xw[i] = "finished" =>
                       /\ fan.started[i] = 1
                       /\ fan.completed[i] + fan.errors[i] = 1
                       /\ fan.completed[i] = 1 <=> fan.slot[i] = "ok"

\* C26: whenever the stored status is extracting or a later stage, the
\* store holds one document record per file that unpacking returned,
\* [ERROR] documents included, and the list handed to extract_all has an
\* entry for every file.
C26_DocumentRecordPerFile ==
    /\ status \in {"extracting", "aggregating", "evaluating", "completed"} =>
          /\ Len(files) >= 1
          /\ documents = Len(files)
    /\ pc = "extract" => DOMAIN ex = DOMAIN files

\* C26 witness: the status is extracting, a file failed to parse, and
\* every file has its document record.
C26_Witness ==
    /\ status = "extracting"
    /\ pc = "extract"
    /\ \E i \in DOMAIN files : files[i] = "err"
    /\ documents = Len(files)
    /\ Len(files) = MaxFiles

\* the overlap of chunk k of the result of chunk_text with chunk k + 1
Overlap(k) ==
    (IF ck.chunks[k].end < ck.chunks[k + 1].end THEN ck.chunks[k].end
     ELSE ck.chunks[k + 1].end) - ck.chunks[k + 1].start

\* C27: chunk_text returns the text itself as the only chunk when it is
\* not longer than max_chars; otherwise every chunk is at most max_chars
\* long, every two consecutive chunks (the last pair too) overlap by at
\* least min(max_chars / 10, 2000) characters, and the chunks cover the
\* text from its first to its last character without a gap.
C27_ChunksOverlapAndCover ==
    ck.pc = "returned" =>
        LET n == Len(ck.chunks)
            least == IF ck.max_chars \div 10 < 2000
                     THEN ck.max_chars \div 10 ELSE 2000
        IN /\ n >= 1
           /\ ck.len <= ck.max_chars =>
                 ck.chunks = <<[start |-> 0, end |-> ck.len]>>
           /\ \A k \in 1..n :
                 ck.chunks[k].end - ck.chunks[k].start <= ck.max_chars
           /\ \A k \in 1..(n - 1) : Overlap(k) >= least
           /\ ck.chunks[1].start = 0
           /\ ck.chunks[n].end = ck.len
           /\ \A k \in 1..(n - 1) :
                 ck.chunks[k + 1].start <= ck.chunks[k].end

\* the items of seq at the positions where they occur first
FirstSeen(seq) ==
    LET first == {i \in 1..Len(seq) : \A j \in 1..(i - 1) : seq[j] # seq[i]}
    IN [k \in 1..Cardinality(first) |->
           seq[CHOOSE i \in first :
                   Cardinality({j \in first : j <= i}) = k]]

\* C28 (as stated): merge_chunk_extractions([x]) equals x and
\* merge_chunk_extractions([x, empty]) equals x, for every x, also one
\* whose list fields hold repeated items.
C28_MergeIdentity ==
    mg.pc = "returned" =>
        /\ Len(mg.results) = 1 => mg.out = mg.results[1]
        /\ (Len(mg.results) = 2 /\ mg.results[2] = EmptyResult) =>
              mg.out = mg.results[1]

\* C28 (amended): merge_chunk_extractions([x]) equals x for every x, and
\* merge_chunk_extractions([x, empty]) equals x with every list field that
\* is a list in both (all list fields but lot_structure) reduced to the
\* first occurrences of its items: it equals x exactly when those fields
\* of x hold no repeated item.
C28_MergeIdentityUpToRepeats ==
    mg.pc = "returned" =>
        /\ Len(mg.results) = 1 => mg.out = mg.results[1]
        /\ (Len(mg.results) = 2 /\ mg.results[2] = EmptyResult) =>
              LET x == mg.results[1] IN
              /\ mg.out =
                    [x EXCEPT
                       !.confidence_notes = FirstSeen(@),
                       !.source_references = FirstSeen(@)]
              /\ mg.out = x <=>
                    /\ FirstSeen(x.confidence_notes) = x.confidence_notes
                    /\ FirstSeen(x.source_references) = x.source_references

\* C28 witness: x with a repeated note was merged with the empty result
\* and the result holds the note once.
C28_Witness ==
    /\ mg.pc = "returned"
    /\ Len(mg.results) = 2
    /\ mg.results[2] = EmptyResult
    /\ mg.results[1].confidence_notes = <<"a", "a">>
    /\ mg.out.confidence_notes = <<"a">>

AllExtracted ==
    {zp.results[i] : i \in DOMAIN zp.results} \cup
    UNION {{zp.stack[k].results[i] : i \in DOMAIN zp.stack[k].results} :
              k \in DOMAIN zp.stack}

\* C30: recursive extraction stops at depth 10, the uploaded archive being
\* depth 0: no archive nested more than 10 levels deep is ever opened, no
\* collected file comes from such an archive, and every extract_files call
\* returns.
C30_StopsAtDepthLimit ==
    /\ [](zp.pc # "idle" =>
            /\ \A d \in zp.opened : d <= _max_depth
            /\ \A f \in AllExtracted : f._depth <= _max_depth)
    /\ (zp.pc = "extract_files" ~> zp.pc = "returned")

\* a chain of archives deeper than the limit was uploaded: level 10 was
\* opened, level 11 was skipped, and the call returned
C30_Witness ==
    /\ zp.pc = "returned"
    /\ _max_depth \in zp.opened
    /\ (_max_depth + 1) \in zp.skipped

\* ---------------------------------------------------------------- C31
\* C31: whatever the entry name, a file written for it lies inside the
\* extraction root, below it; an entry whose name sanitizes to nothing, or
\* whose destination path resolves outside the root, has nothing written.
C31_WrittenInsideRoot ==
    zp.pc = "next_entry" =>
        /\ zp.out.written =>
              (zp.out.target.inside /\ zp.out.target.parts # <<>>)
        /\ _sanitize_filename(zp.filename).none => ~zp.out.written
        /\ ~zp.out.target.inside => ~zp.out.written

\* an entry named "../a" was written
C31_Witness ==
    /\ zp.pc = "next_entry"
    /\ zp.filename = <<".", ".", "/", "a">>
    /\ zp.out.written

\* ---------------------------------------------------------------- C32
\* C32: a request with more than 20 files, with a file larger than 50 MB,
\* or with a named file of an unsupported extension is answered with 400:
\* no record is created, the store is unchanged, there is no lane and no
\* pipeline task.
C32_RejectedAtBoundary ==
    (/\ req.pc # "idle"
     /\ \/ len_files(req) > 20
        \/ \E i \in DOMAIN req.files :
              \/ req.files[i].size > 50 * 1024 * 1024
              \/ req.files[i].named /\ req.files[i].ext = "txt")
    => /\ req.pc \in {"received", "http_400"}
       /\ status = Null
       /\ events = <<>>
       /\ documents = 0
       /\ ~lane
       /\ ~req.task
       /\ ~started

\* a request of 21 valid files was rejected
C32_Witness ==
    /\ req.pc = "http_400"
    /\ len_files(req) = 21
    /\ \A i \in DOMAIN req.files :
          req.files[i].named /\ req.files[i].ext = "pdf"
                             /\ req.files[i].size = 1

\* ---------------------------------------------------------------- C33
\* C33: the progress getAnalysis reports is the value of the status bucket,
\* and while the status is extracting it lies within [40, 70], whatever
\* events are stored.
C33_ProgressWithinBucket ==
    LET p == _build_progress(status, events, metrics, Len(files)) IN
    /\ status = "pending" => p = 0
    /\ status = "unpacking" => p = 5
    /\ status = "parsing" => p = 15
    /\ status = "aggregating" => p = 70
    /\ status = "evaluating" => p = 85
    /\ status = "completed" => p = 100
    /\ status \in {"failed", "canceled"} => p = 0
    /\ status = "extracting" => (40 <= p /\ p <= 70)

\* ---------------------------------------------------------------- C34
\* the stage whose work appends an event of type t (0: none)
EventStage(t) ==
    CASE t = "file_parsed" -> 1
      [] t \in {"extraction_started", "extraction_completed"} -> 2
      [] t \in {"aggregation_started", "aggregation_completed"} -> 3
      [] t \in {"evaluation_started", "evaluation_completed"} -> 4
      [] OTHER -> 0

\* C34: the status of a stage is stored before the work of the stage
\* begins, and one stage is active at a time: when an event of stage S is
\* appended, S is the stage run() is in, and the stored status is not the
\* status of an earlier stage (nor pending).
C34_StatusStoredBeforeWork ==
    [][\A t \in {"file_parsed", "extraction_started",
                 "extraction_completed", "aggregation_started",
                 "aggregation_completed", "evaluation_started",
                 "evaluation_completed"} :
          Appended(t) =>
             (/\ stage = EventStage(t)
              /\ status \notin {StatusOrder[i] : i \in 1..(EventStage(t) + 1)})
      ]_vars

\* the work of the aggregating stage has appended its last event under the
\* status aggregating
C34_Witness ==
    /\ status = "aggregating"
    /\ events # <<>>
    /\ events[Len(events)].event_type = "aggregation_completed"

\* ---------------------------------------------------------------- C35
\* C35 (as claimed): create_stream for an id that already has a lane
\* returns the existing queue, with the chunks queued on it.
C35_CreateReturnsExisting ==
    (created.pc = "called" /\ created.had_lane) =>
        created.returned = created.before

\* C35 (amended): every create_stream call registers and returns a new,
\* empty queue, whether or not the id had a lane.
C35_CreateRegistersEmptyQueue ==
    /\ [](created.pc = "called" => created.returned = <<>>)
    /\ [][created' # created => (lane' /\ q' = <<>>)]_vars

\* create_stream was called for an id whose lane held chunks
C35_Witness ==
    /\ created.pc = "called"
    /\ created.had_lane
    /\ created.before # <<>>

\* ---------------------------------------------------------------- C36
\* the least time a sequence of sleeps with the given base delays takes
RECURSIVE MinDelay(_)
MinDelay(bases) ==
    IF bases = <<>> THEN 0
    ELSE sleep_time(Head(bases), 0) + MinDelay(Tail(bases))

\* C36: in every _request_with_retry call the sleeps are between the
\* attempts: before each attempt after the first exactly one sleep has
\* ended, once the call is over it has made k attempts and k - 1 sleeps,
\* the base delays are 2 s then 4 s, each sleep lasts from its base delay
\* up to 1.5 times that, and two 429 responses followed by a success cost
\* at least 6 seconds.
C36_SleepsBetweenAttempts ==
    llm.pc \in {"request", "response", "raised"} =>
        /\ Len(llm.sleeps) =
              IF llm.pc = "request" THEN Len(llm.resps)
              ELSE Len(llm.resps) - 1
        /\ llm.sleeps \in {<<>>, <<2>>, <<2, 4>>}
        /\ \A i \in DOMAIN llm.sleeps : \A r \in Randoms :
              /\ sleep_time(llm.sleeps[i], r) >= 1000 * llm.sleeps[i]
              /\ sleep_time(llm.sleeps[i], r) < 1500 * llm.sleeps[i]
        /\ llm.resps = <<429, 429, 200>> => MinDelay(llm.sleeps) >= 6000

\* two 429 responses, then a success
C36_Witness ==
    /\ llm.pc = "response"
    /\ llm.resps = <<429, 429, 200>>
    /\ Len(llm.sleeps) = 2

\* ---------------------------------------------------------------- C37
\* C37: for the document, or for each of its chunks: at most 2 extraction
\* attempts are made; the second is made exactly when the streaming
\* attempt has raised, with streaming disabled and after a pause of 2
\* seconds; and a document one of whose second attempts has raised
\* returns the failure result.
C37_OneNonStreamingRetry ==
    xd.pc # "idle" =>
        /\ \A i \in DOMAIN xd.units :
              LET u == xd.units[i] IN
              /\ u.attempts <= 2
              /\ u.attempts = 2 =>
                    (u.first = "raised" /\ ~u.use_streaming /\ u.slept = 2)
              /\ u.attempts = 1 => (u.use_streaming /\ u.slept = 0)
              /\ (u.first = "raised" /\ u.pc # "sleep") => u.attempts = 2
        /\ xd.pc = "returned" =>
              (xd.result = "failed" <=>
                  \E i \in DOMAIN xd.units : xd.units[i].pc = "raised")

\* a chunk's streaming attempt and its second attempt both raised, and
\* the document returned the failure result
C37_Witness ==
    /\ xd.pc = "returned"
    /\ xd.result = "failed"
    /\ Len(xd.units) > 1
    /\ \E i \in DOMAIN xd.units :
          xd.units[i].pc = "raised" /\ xd.units[i].attempts = 2

\* ---------------------------------------------------------------- C38
\* C38: the stored report and qa are non-null exactly when the stored
\* status is completed, and a completed analysis carries report, qa and
\* metrics.
C38_ReportIffCompleted ==
    /\ (report # Null \/ qa # Null) => status = "completed"
    /\ status = "completed" =>
          (report # Null /\ qa # Null /\ metrics # Null)

\* ------------------------------------------------ progress of an analysis
\* create_analysis has stored the record and created the task while the
\* store is going down: up to MaxOutageFailures store calls raise
InitOutage == InitAnalysisWith(MaxOutageFailures) /\ spc = "off" /\ Quiet

\* a step of the task _run_pipeline
PipelineStep ==
    \/ WStart
    \/ NoKey
    \/ WFail
    \/ PipelineInit
    \/ CheckCancellation
    \/ UpdateStatus
    \/ Emit
    \/ Unpack
    \/ \E i \in 1..MaxFiles : ParseOne(i)
    \/ ParseEnd
    \/ AddDocument
    \/ ExtractBegin
    \/ \E i \in 1..MaxFiles : ExtractStart(i)
    \/ \E i \in 1..MaxFiles : ExtractFinish(i)
    \/ ExtractEnd
    \/ Aggregate
    \/ Evaluate
    \/ Save
    \/ HandlerUpdate
    \/ Finally

\* the event loop keeps running the task, and a cancel_analysis request
\* that has read the record goes on to its write; whether a cancel request
\* is made at all is up to the client
SpecOutageFair ==
    /\ InitOutage
    /\ [][Next]_vars
    /\ WF_vars(PipelineStep)
    /\ WF_vars(CancelWrite)

\* C39: under fair scheduling, with every LLM call, store call and document
\* conversion returning or raising, the analysis eventually has a terminal
\* status and the lane of a constructed pipeline is eventually removed
C39_EventuallyTerminal ==
    /\ <>(status \in Terminal)
    /\ (lane ~> ~lane)

\* C40: chunk_text terminates for every text and every positive max_chars:
\* each pass of the loop starts at a greater offset than the pass before,
\* and there are no more chunks than the text has characters
C40_StartsIncrease ==
    /\ [](ck.pc # "idle" =>
            Len(ck.chunks) <= (IF ck.len > 1 THEN ck.len ELSE 1))
    /\ [][(ck.pc = "while" /\ ck'.pc = "while") => ck'.start > ck.start]_vars

====
